---- MODULE Spec2Model ----
(***************************************************************************)
(* Finance assistant: quote cache (APIAgent / MarketDataIngestion),        *)
(* intent classifier (LanguageAgent), risk aggregator (AnalysisAgent),     *)
(* router (AgentRouter) and the process entry point (orchestrator/main).   *)
(***************************************************************************)
EXTENDS Integers, Sequences, FiniteSets, TLC

(***************************************************************************)
(* Bounds of the model.                                                    *)
(***************************************************************************)
\* the clock reading when the server starts (seconds; later than one
\* ingestion interval after the epoch, as any real clock is)
StartTime == 3750
\* the clock stops here
MaxTime == 4350
\* the clock advances by this many seconds at a time
ClockStep == 150
\* process requests served
MaxRequests == 2
\* concurrent callers of get_stock_data, and calls each of them makes
MaxThreads == 2
MaxRounds == 2
\* direct calls of analyze_risk_exposure in one run
\* the longest query, in words, given to the keyword classifier directly
MaxWords == 4
\* the longest price series given to the analytics functions directly
MaxSamples == 3
\* the highest average volatility classified directly (hundredths of a
\* percent) and the widest sum of price changes and ticker count labelled
MaxVolatility == 4000
MaxChange == 12
MaxTickers == 4
MaxRiskCalls == 2

\* calls of _handle_stock_specific made directly
MaxStockCalls == 2

\* the clock of the server over some hours: its step and its last value
IngestClockStep == 1800

MaxIngestTime == 11000

\* requests sent to the server over those hours
MaxArrivals == 3

(***************************************************************************)
(* Program constants.                                                      *)
(***************************************************************************)
\* self.cache_duration = 300
cache_duration == 300

\* the two classes that own a quote cache
Agents == {"APIAgent", "MarketDataIngestion"}

\* pd.DataFrame(): a frame with no rows (a series is the sequence of its Close values)
EmptyFrame == << >>

\* {}: a dict with no keys
EmptyMap == [x \in {} |-> 0]

VARIABLES
    now,            \* wall clock, datetime.now().timestamp() / time.time()
    provider,       \* state of the upstream market-data provider (yfinance)
    agent,          \* the class of the object that owns the quote cache
    cache,          \* self.cache, cache_key -> series
    cache_expiry,   \* self.cache_expiry, cache_key -> timestamp
    last_fetch,     \* per cache key, when upstream last returned a series for it
    lastCall,       \* the latest direct call of get_stock_data, as its caller saw it
    threads,        \* concurrent callers of get_stock_data: position and locals
    series_fill,    \* which fill wrote the stored series of the contended key
    expiry_fill,    \* which fill wrote the stored expiry of the contended key
    lastRisk,       \* the latest direct call of analyze_risk_exposure, as its caller saw it
    lastEval,       \* the latest direct call of a function without state: arguments and result
    ingest,         \* the event loop seen from the ingestion: the run in progress, the
                    \* runs made, the requests waiting
    server,         \* "starting" until the startup event has run, then "serving"
    tasks,          \* background tasks scheduled by process_query and not yet run
    last_data_ingestion, \* main.last_data_ingestion
    lastQuery       \* the latest process request: its inputs, what it called, its response

envVars == <<now, provider>>
cacheVars == <<cache, cache_expiry>>
obsVars == <<last_fetch, lastCall>>
concVars == <<threads, series_fill, expiry_fill>>

appVars == <<server, tasks, last_data_ingestion, lastQuery>>

vars == <<envVars, agent, cacheVars, obsVars, concVars, lastRisk, lastEval, ingest, appVars>>

(***************************************************************************)
(* The upstream provider: yf.Ticker(ticker).history(period, interval).     *)
(***************************************************************************)
ProviderModes == {"up", "partial", "down"}

\* symbols the provider rejects / has no rows for while it is "partial"
FailingSymbols == {"9988.HK", "^HSI", "XLE", "BABA"}
DelistedSymbols == {"0700.HK", "MEITF", "6758.T"}

\* the Close columns the provider serves: daily changes of +10% and -10%,
\* of 0% and 0%, of +1% and 0%
QuoteTable == << <<100, 110, 99>>, <<100, 100, 100>>, <<100, 101, 101>> >>

\* the Close column the provider has for a symbol at time t (the benchmark
\* index moves differently from the stocks)
Quote(ticker, t) ==
    QuoteTable[(((t \div ClockStep) + (IF ticker = "^GSPC" THEN 2 ELSE 0)) % 3) + 1]

\* stock.calendar / stock.earnings: the lookup raises, finds nothing, or
\* gives the latest earnings row of the ticker
NoEarnings(status) == [status |-> status, Earnings |-> 0, Estimate |-> 0]
EarningsRow(mode, ticker) ==
    CASE mode = "down" -> NoEarnings("raised")
      [] mode = "partial" /\ ticker \in FailingSymbols -> NoEarnings("raised")
      [] ticker = "TSM" -> [status |-> "row", Earnings |-> 110, Estimate |-> 100]
      [] ticker = "005930.KS" -> [status |-> "row", Earnings |-> 98, Estimate |-> 100]
      [] ticker = "SONY" -> [status |-> "row", Earnings |-> 1005, Estimate |-> 1000]
      [] ticker = "JD" -> [status |-> "row", Earnings |-> 7, Estimate |-> 0]
      [] OTHER -> NoEarnings("none")

\* stock.news: the lookup raises, or gives the titles the provider has for
\* the ticker, newest first
NewsFeed(mode, ticker) ==
    CASE mode = "down" -> [raised |-> TRUE, items |-> << >>]
      [] mode = "partial" /\ ticker \in FailingSymbols -> [raised |-> TRUE, items |-> << >>]
      [] ticker = "AAPL" ->
            [raised |-> FALSE,
             items |-> <<"AAPL n1", "AAPL n2", "AAPL n3", "AAPL n4", "AAPL n5", "AAPL n6">>]
      [] ticker = "TSM" -> [raised |-> FALSE, items |-> <<"TSM n1">>]
      [] OTHER -> [raised |-> FALSE, items |-> << >>]

\* reply of stock.history(...): it raises, or returns a (possibly empty) frame
History(mode, ticker, period, interval, t) ==
    CASE mode = "down" -> [raised |-> TRUE, data |-> EmptyFrame]
      [] mode = "partial" /\ ticker \in FailingSymbols ->
            [raised |-> TRUE, data |-> EmptyFrame]
      [] mode = "partial" /\ ticker \in DelistedSymbols ->
            [raised |-> FALSE, data |-> EmptyFrame]
      [] OTHER -> [raised |-> FALSE, data |-> Quote(ticker, t)]

(***************************************************************************)
(* Quote cache.                                                            *)
(***************************************************************************)
\* cache_key = f"{ticker}_{period}_{interval}"
CacheKey(ticker, period, interval) == ticker \o "_" \o period \o "_" \o interval

\* d[k] = v
Put(d, k, v) == (k :> v) @@ d

\* self.cache_expiry.get(cache_key, 0)
ExpiryOf(e, key) == IF key \in DOMAIN e THEN e[key] ELSE 0

\* mutant: an entry is still served at the instant it expires
IsCachedInclusive(c, e, key, t) == key \in DOMAIN c /\ ExpiryOf(e, key) >= t

\* cache_key in self.cache and self.cache_expiry.get(cache_key, 0) > now
IsCached(c, e, key, t) == key \in DOMAIN c /\ ExpiryOf(e, key) > t

\* now + self.cache_duration
NewExpiry(t) == t + cache_duration

\* the except clause: APIAgent logs and re-raises, MarketDataIngestion
\* logs and returns pd.DataFrame()
OnFetchError(cls) ==
    IF cls = "APIAgent"
    THEN [outcome |-> "raised", result |-> EmptyFrame]
    ELSE [outcome |-> "returned", result |-> EmptyFrame]

\* mutant: when the refresh fails the old entry is handed out
get_stock_data_stale(cls, st, ticker, period, interval, mode, t) ==
    LET key == CacheKey(ticker, period, interval)
        reply == History(mode, ticker, period, interval, t)
    IN  IF IsCached(st.cache, st.cache_expiry, key, t) \/ (reply.raised /\ key \in DOMAIN st.cache)
        THEN [cache |-> st.cache, cache_expiry |-> st.cache_expiry,
              outcome |-> "returned", result |-> st.cache[key],
              fetches |-> IF IsCached(st.cache, st.cache_expiry, key, t) THEN 0 ELSE 1]
        ELSE IF reply.raised
        THEN [cache |-> st.cache, cache_expiry |-> st.cache_expiry,
              outcome |-> OnFetchError(cls).outcome,
              result |-> OnFetchError(cls).result,
              fetches |-> 1]
        ELSE [cache |-> Put(st.cache, key, reply.data),
              cache_expiry |-> Put(st.cache_expiry, key, NewExpiry(t)),
              outcome |-> "returned", result |-> reply.data,
              fetches |-> 1]

\* mutant: only a frame with rows is stored
get_stock_data_skip_empty(cls, st, ticker, period, interval, mode, t) ==
    LET key == CacheKey(ticker, period, interval)
        reply == History(mode, ticker, period, interval, t)
    IN  IF IsCached(st.cache, st.cache_expiry, key, t)
        THEN [cache |-> st.cache, cache_expiry |-> st.cache_expiry,
              outcome |-> "returned", result |-> st.cache[key],
              fetches |-> 0]
        ELSE IF reply.raised
        THEN [cache |-> st.cache, cache_expiry |-> st.cache_expiry,
              outcome |-> OnFetchError(cls).outcome,
              result |-> OnFetchError(cls).result,
              fetches |-> 1]
        ELSE IF reply.data = EmptyFrame
        THEN [cache |-> st.cache, cache_expiry |-> st.cache_expiry,
              outcome |-> "returned", result |-> reply.data,
              fetches |-> 1]
        ELSE [cache |-> Put(st.cache, key, reply.data),
              cache_expiry |-> Put(st.cache_expiry, key, NewExpiry(t)),
              outcome |-> "returned", result |-> reply.data,
              fetches |-> 1]

\* mutant: a failed refresh drops the entry of the key
get_stock_data_evict(cls, st, ticker, period, interval, mode, t) ==
    LET key == CacheKey(ticker, period, interval)
        reply == History(mode, ticker, period, interval, t)
    IN  IF IsCached(st.cache, st.cache_expiry, key, t)
        THEN [cache |-> st.cache, cache_expiry |-> st.cache_expiry,
              outcome |-> "returned", result |-> st.cache[key],
              fetches |-> 0]
        ELSE IF reply.raised
        THEN [cache |-> [k \in DOMAIN st.cache \ {key} |-> st.cache[k]],
              cache_expiry |-> [k \in DOMAIN st.cache_expiry \ {key} |-> st.cache_expiry[k]],
              outcome |-> OnFetchError(cls).outcome,
              result |-> OnFetchError(cls).result,
              fetches |-> 1]
        ELSE [cache |-> Put(st.cache, key, reply.data),
              cache_expiry |-> Put(st.cache_expiry, key, NewExpiry(t)),
              outcome |-> "returned", result |-> reply.data,
              fetches |-> 1]

\* get_stock_data on the store st = [cache, cache_expiry] at time t under the
\* provider state mode: the new store, what the caller gets (outcome is
\* "returned" or "raised") and the number of upstream calls issued
get_stock_data(cls, st, ticker, period, interval, mode, t) ==
    LET key == CacheKey(ticker, period, interval)
        reply == History(mode, ticker, period, interval, t)
    IN  IF IsCached(st.cache, st.cache_expiry, key, t)
        THEN [cache |-> st.cache, cache_expiry |-> st.cache_expiry,
              outcome |-> "returned", result |-> st.cache[key],
              fetches |-> 0]
        ELSE IF reply.raised
        THEN [cache |-> st.cache, cache_expiry |-> st.cache_expiry,
              outcome |-> OnFetchError(cls).outcome,
              result |-> OnFetchError(cls).result,
              fetches |-> 1]
        ELSE [cache |-> Put(st.cache, key, reply.data),
              cache_expiry |-> Put(st.cache_expiry, key, NewExpiry(t)),
              outcome |-> "returned", result |-> reply.data,
              fetches |-> 1]

(***************************************************************************)
(* APIAgent: the data-gathering calls built on get_stock_data.  Each takes *)
(* the store st, the provider state and the time, and yields the new store *)
(* (cache, cache_expiry), its value and the upstream calls it issued.      *)
(***************************************************************************)
\* sum of a sequence of numbers (the sum of its two halves)
RECURSIVE SumSeq(_)
SumSeq(q) ==
    IF Len(q) = 0 THEN 0
    ELSE IF Len(q) = 1 THEN q[1]
    ELSE SumSeq(SubSeq(q, 1, Len(q) \div 2)) + SumSeq(SubSeq(q, Len(q) \div 2 + 1, Len(q)))

\* dict built by assigning the pairs <<key, value>> in order: a key holds
\* the value of its last pair
ToDict(pairs) ==
    [k \in {pairs[i][1] : i \in 1..Len(pairs)} |->
        LET last == CHOOSE i \in 1..Len(pairs) :
                        /\ pairs[i][1] = k
                        /\ \A j \in (i + 1)..Len(pairs) : pairs[j][1] # k
        IN  pairs[last][2]]

\* ((last - prev) / prev) * 100; the Close values of the model make it exact
Pct(last, prev) == ((last - prev) * 100) \div prev

\* for ticker in tickers: get_stock_data(ticker, period, interval), each
\* call inside its own try.  All iterations run at the time t under the
\* provider state mode, so iteration j stores an entry exactly when its key
\* has no live entry at the start of the loop and the provider answers.
StoresAt(st, tickers, period, interval, mode, t, j) ==
    /\ ~IsCached(st.cache, st.cache_expiry, CacheKey(tickers[j], period, interval), t)
    /\ ~History(mode, tickers[j], period, interval, t).raised

\* the store at the start of iteration i: the store at the start of the loop
\* with what the iterations before i stored
StoreBefore(st, tickers, period, interval, mode, t, i) ==
    LET stored == {j \in 1..(i - 1) : StoresAt(st, tickers, period, interval, mode, t, j)}
        filled == [k \in {CacheKey(tickers[j], period, interval) : j \in stored} |->
                      LET j == CHOOSE j \in stored : CacheKey(tickers[j], period, interval) = k
                      IN  History(mode, tickers[j], period, interval, t).data]
    IN  [cache |-> filled @@ st.cache,
         cache_expiry |-> [k \in DOMAIN filled |-> NewExpiry(t)] @@ st.cache_expiry]

\* the store a data-gathering call left
StoreOf(r) == [cache |-> r.cache, cache_expiry |-> r.cache_expiry]

\* what one call of the loop gave
CallRecord(ticker, r) ==
    [ticker |-> ticker, outcome |-> r.outcome, result |-> r.result, fetches |-> r.fetches]

\* the result of the loop from the store it left and what each call gave
LoopResult(end, got) ==
    [cache |-> end.cache, cache_expiry |-> end.cache_expiry, got |-> got,
     fetches |-> SumSeq([i \in 1..Len(got) |-> got[i].fetches])]

\* the loop: the store it leaves, what each call gave, in order, and the
\* upstream calls issued
FetchEach(cls, st, tickers, period, interval, mode, t) ==
    LoopResult(
        StoreBefore(st, tickers, period, interval, mode, t, Len(tickers) + 1),
        SubSeq([i \in 1..Len(tickers) |->
                   CallRecord(tickers[i],
                       get_stock_data(cls,
                           StoreBefore(st, tickers, period, interval, mode, t, i),
                           tickers[i], period, interval, mode, t))],
               1, Len(tickers)))

\* a call that raised, or returned a frame with rows
Raised(g) == g.outcome = "raised"
HasRows(g) == g.outcome = "returned" /\ g.result # EmptyFrame
RaisedOrHasRows(g) == Raised(g) \/ HasRows(g)

\* last and previous Close of a frame with rows (the last one twice when
\* the frame has one row)
LastClose(data) == data[Len(data)]
PrevClose(data) == IF Len(data) > 1 THEN data[Len(data) - 1] ELSE data[Len(data)]

\* the symbols of get_market_indices and their names
IndexSymbols == <<"^GSPC", "^DJI", "^IXIC", "^FTSE", "^N225", "^HSI">>
IndexName(symbol) ==
    CASE symbol = "^GSPC" -> "S&P 500"
      [] symbol = "^DJI" -> "Dow Jones"
      [] symbol = "^IXIC" -> "NASDAQ"
      [] symbol = "^FTSE" -> "FTSE 100"
      [] symbol = "^N225" -> "Nikkei 225"
      [] symbol = "^HSI" -> "Hang Seng"

IndexEntry(g) ==
    IF Raised(g)
    THEN [price |-> 0, change_percent |-> 0, error |-> "provider error"]
    ELSE [price |-> LastClose(g.result),
          change_percent |-> Pct(LastClose(g.result), PrevClose(g.result))]

\* the dict built from what the loop over the symbols gave
IndicesFrom(f) ==
    LET kept == SelectSeq(f.got, RaisedOrHasRows)
    IN  [cache |-> f.cache, cache_expiry |-> f.cache_expiry, fetches |-> f.fetches,
         value |-> ToDict([i \in 1..Len(kept) |->
                              <<IndexName(kept[i].ticker), IndexEntry(kept[i])>>])]

get_market_indices(cls, st, mode, t) ==
    IndicesFrom(FetchEach(cls, st, IndexSymbols, "1d", "1d", mode, t))

\* the ETFs of get_sector_performance and their sectors
SectorEtfs == <<"XLF", "XLK", "XLV", "XLE", "XLY", "XLP", "XLI", "XLB", "XLU", "XLRE">>
SectorOfEtf(symbol) ==
    CASE symbol = "XLF" -> "Financials"
      [] symbol = "XLK" -> "Technology"
      [] symbol = "XLV" -> "Healthcare"
      [] symbol = "XLE" -> "Energy"
      [] symbol = "XLY" -> "Consumer Discretionary"
      [] symbol = "XLP" -> "Consumer Staples"
      [] symbol = "XLI" -> "Industrials"
      [] symbol = "XLB" -> "Materials"
      [] symbol = "XLU" -> "Utilities"
      [] symbol = "XLRE" -> "Real Estate"

SectorEntry(g) ==
    IF Raised(g) THEN 0 ELSE Pct(LastClose(g.result), g.result[1])

\* the dict built from what the loop over the symbols gave
SectorsFrom(f) ==
    LET kept == SelectSeq(f.got, RaisedOrHasRows)
    IN  [cache |-> f.cache, cache_expiry |-> f.cache_expiry, fetches |-> f.fetches,
         value |-> ToDict([i \in 1..Len(kept) |->
                              <<SectorOfEtf(kept[i].ticker), SectorEntry(kept[i])>>])]

get_sector_performance(cls, st, mode, t) ==
    SectorsFrom(FetchEach(cls, st, SectorEtfs, "5d", "1h", mode, t))

\* the symbols of get_economic_indicators and their names
IndicatorSymbols == <<"^TNX", "^TYX", "^FVX", "GC=F", "CL=F", "EURUSD=X", "JPY=X">>
IndicatorName(symbol) ==
    CASE symbol = "^TNX" -> "10-Year Treasury Yield"
      [] symbol = "^TYX" -> "30-Year Treasury Yield"
      [] symbol = "^FVX" -> "5-Year Treasury Yield"
      [] symbol = "GC=F" -> "Gold"
      [] symbol = "CL=F" -> "Crude Oil"
      [] symbol = "EURUSD=X" -> "EUR/USD"
      [] symbol = "JPY=X" -> "USD/JPY"

IndicatorEntry(g) == IF Raised(g) THEN 0 ELSE LastClose(g.result)

\* the dict built from what the loop over the symbols gave
IndicatorsFrom(f) ==
    LET kept == SelectSeq(f.got, RaisedOrHasRows)
    IN  [cache |-> f.cache, cache_expiry |-> f.cache_expiry, fetches |-> f.fetches,
         value |-> ToDict([i \in 1..Len(kept) |->
                              <<IndicatorName(kept[i].ticker), IndicatorEntry(kept[i])>>])]

get_economic_indicators(cls, st, mode, t) ==
    IndicatorsFrom(FetchEach(cls, st, IndicatorSymbols, "1d", "1h", mode, t))

\* the tickers of get_asia_tech_exposure
AsiaTechStocks ==
    <<"TSM", "2330.TW", "005930.KS", "9988.HK", "BABA", "9999.HK", "BIDU", "0700.HK",
      "TCEHY", "9618.HK", "JD", "6758.T", "SONY", "3690.HK", "MEITF">>

Abs(x) == IF x < 0 THEN -x ELSE x

\* ticker.split('.')[0] if '.' in ticker else ticker, on the tickers of the list
CompanyName(ticker) ==
    CASE ticker = "2330.TW" -> "2330"
      [] ticker = "005930.KS" -> "005930"
      [] ticker = "9988.HK" -> "9988"
      [] ticker = "9999.HK" -> "9999"
      [] ticker = "0700.HK" -> "0700"
      [] ticker = "9618.HK" -> "9618"
      [] ticker = "6758.T" -> "6758"
      [] ticker = "3690.HK" -> "3690"
      [] OTHER -> ticker

\* a ticker whose get_stock_data did not raise and whose calendar/earnings
\* lookup gave a row
HasEarnings(mode, g) == ~Raised(g) /\ EarningsRow(mode, g.ticker).status = "row"

\* estimate > 0 and abs((surprise - estimate) / estimate * 100) > 1.0
IsSignificant(row) ==
    row.Estimate > 0 /\ Abs(row.Earnings - row.Estimate) * 100 > row.Estimate

\* mutant: the comparisons admit the thresholds
SentimentOfInclusive(total, count) ==
    IF total >= 2 * count THEN "bullish"
    ELSE IF 2 * total >= count THEN "slightly bullish"
    ELSE IF 2 * total >= -count THEN "neutral"
    ELSE IF total >= -2 * count THEN "slightly bearish"
    ELSE "bearish"

\* the sentiment label of an average change of total / count percent
\* (count > 0; the comparisons with 2, 0.5, -0.5 and -2 are made on total)
SentimentOf(total, count) ==
    IF total > 2 * count THEN "bullish"
    ELSE IF 2 * total > count THEN "slightly bullish"
    ELSE IF 2 * total > -count THEN "neutral"
    ELSE IF total > -2 * count THEN "slightly bearish"
    ELSE "bearish"

\* portfolio_percentage / previous_portfolio_percentage
portfolio_percentage == 22
previous_portfolio_percentage == 18

\* the exposure report from what the loop over the tickers gave
AsiaTechFrom(mode, f) ==
    LET rows == SelectSeq(f.got, HasRows)
        changes == [i \in 1..Len(rows) |->
                       Pct(LastClose(rows[i].result), PrevClose(rows[i].result))]
        reached == SelectSeq(f.got, LAMBDA g : ~Raised(g))
        earn == SelectSeq(f.got, LAMBDA g : HasEarnings(mode, g))
        big == SelectSeq(earn, LAMBDA g : IsSignificant(EarningsRow(mode, g.ticker)))
        total == SumSeq(changes)
        count == IF Len(rows) = 0 THEN 1 ELSE Len(rows)
    IN  [cache |-> f.cache, cache_expiry |-> f.cache_expiry,
         fetches |-> f.fetches + Len(reached),
         value |->
            [exposure |->
                [percentage |-> portfolio_percentage,
                 previous_percentage |-> previous_portfolio_percentage,
                 change |-> portfolio_percentage - previous_portfolio_percentage,
                 movement_direction |->
                    IF portfolio_percentage > previous_portfolio_percentage
                    THEN "up" ELSE "down"],
             earnings_surprises |->
                ToDict([i \in 1..Len(big) |->
                    <<CompanyName(big[i].ticker),
                      Pct(EarningsRow(mode, big[i].ticker).Earnings,
                          EarningsRow(mode, big[i].ticker).Estimate)>>]),
             sentiment |-> SentimentOf(total, count),
             avg_price_change |-> [sum |-> total, count |-> count]]]

get_asia_tech_exposure(cls, st, mode, t) ==
    AsiaTechFrom(mode, FetchEach(cls, st, AsiaTechStocks, "5d", "1h", mode, t))

\* the fixed part of get_portfolio_data
PortfolioAllocation ==
    [regions |-> [r \in {"North America", "Asia", "Europe", "Emerging Markets", "Other"} |->
                    CASE r = "North America" -> 45 [] r = "Asia" -> 22
                      [] r = "Europe" -> 18 [] r = "Emerging Markets" -> 12
                      [] r = "Other" -> 3],
     sectors |-> [x \in {"Technology", "Finance", "Healthcare", "Consumer Discretionary",
                         "Industrials", "Energy", "Other"} |->
                    CASE x = "Technology" -> 35 [] x = "Finance" -> 22
                      [] x = "Healthcare" -> 15 [] x = "Consumer Discretionary" -> 10
                      [] x = "Industrials" -> 8 [] x = "Energy" -> 5 [] x = "Other" -> 5]]

\* the portfolio around the exposure report a
PortfolioFrom(a) ==
    [cache |-> a.cache, cache_expiry |-> a.cache_expiry, fetches |-> a.fetches,
     value |-> [total_value |-> 1250000,
                daily_change_percent |-> [num |-> -32, den |-> 100],
                allocation |-> PortfolioAllocation,
                asia_tech |-> a.value]]

get_portfolio_data(cls, st, mode, t) ==
    PortfolioFrom(get_asia_tech_exposure(cls, st, mode, t))

\* get_stock_news: at most five items, [] when the provider raises
get_stock_news(mode, ticker) ==
    LET feed == NewsFeed(mode, ticker)
    IN  IF feed.raised THEN << >>
        ELSE SubSeq(feed.items, 1, IF Len(feed.items) < 5 THEN Len(feed.items) ELSE 5)

(***************************************************************************)
(* AnalysisAgent.  Returns are in percent, the figures in hundredths (of a *)
(* percent for volatility and VaR); a float NaN is the value NaN.          *)
(***************************************************************************)
Num(v) == [nan |-> FALSE, v |-> v]
NaN == [nan |-> TRUE, v |-> 0]

\* x > c for a float x and a number c (False when x is NaN)
Gt(x, c) == ~x.nan /\ x.v > c

\* x * x <= n, for x * x within 32 bits
Fits(x, n) == x <= 46340 /\ x * x <= n

\* the largest digit d of 0..35 with (base + d * step)^2 <= n
SqrtDigit(n, base, step) ==
    CHOOSE d \in 0..35 :
        /\ Fits(base + d * step, n)
        /\ d = 35 \/ ~Fits(base + (d + 1) * step, n)

\* largest r with r * r <= n (n >= 0), digit by digit in base 36
Isqrt(n) ==
    LET a == 1296 * SqrtDigit(n, 0, 1296)
        b == a + 36 * SqrtDigit(n, a, 36)
    IN  b + SqrtDigit(n, b, 1)

\* prices.pct_change().dropna(), in percent
Returns(prices) ==
    IF Len(prices) < 2 THEN << >>
    ELSE [i \in 1..(Len(prices) - 1) |-> Pct(prices[i + 1], prices[i])]

\* q.iloc[-n:]
LastN(q, n) == IF Len(q) <= n THEN q ELSE SubSeq(q, Len(q) - n + 1, Len(q))

\* n * sum(x * y) - sum(x) * sum(y): n * (n - 1) times the sample covariance
CovNum(x, y) ==
    Len(x) * SumSeq([i \in 1..Len(x) |-> x[i] * y[i]]) - SumSeq(x) * SumSeq(y)

\* calculate_volatility(prices, window = 20) * 100: std of the returns
\* times sqrt(252), NaN when there are fewer than two returns
calculate_volatility(prices) ==
    LET r == LastN(Returns(prices), 20)
        n == Len(r)
    IN  IF n < 2 THEN NaN
        ELSE Num(Isqrt((2520000 * CovNum(r, r)) \div (n * (n - 1))))

\* calculate_beta(stock_prices, market_prices, window = 60): the returns
\* are aligned row by row from the latest row back
calculate_beta(stock_prices, market_prices) ==
    LET sr == Returns(stock_prices)
        mr == Returns(market_prices)
        k == IF Len(sr) < Len(mr) THEN Len(sr) ELSE Len(mr)
        x == LastN(LastN(sr, k), 60)
        y == LastN(LastN(mr, k), 60)
    IN  IF Len(x) < 2 THEN NaN
        ELSE IF CovNum(y, y) = 0 THEN Num(100)
        ELSE Num((100 * CovNum(x, y)) \div CovNum(y, y))

\* returns.std() * np.sqrt(252) in hundredths of a percent, for at least two
\* returns
AnnualStd(r) == Isqrt((2520000 * CovNum(r, r)) \div (Len(r) * (Len(r) - 1)))

\* calculate_sharpe_ratio(returns, risk_free_rate = 0.035, window = 252), in
\* hundredths: NaN when mean or std is NaN, 0.0 when the std is zero
calculate_sharpe_ratio(returns) ==
    LET r == LastN(returns, 252)
        n == Len(r)
    IN  IF n < 2 THEN NaN
        ELSE IF AnnualStd(r) = 0 THEN Num(0)
        ELSE Num((2520000 * SumSeq(r) - 35000 * n) \div (n * AnnualStd(r)))

\* prices.cummax()
RunningMax(prices) ==
    [i \in 1..Len(prices) |->
        CHOOSE x \in {prices[j] : j \in 1..i} : \A j \in 1..i : prices[j] <= x]

\* (prices / running_max - 1) * 100, in hundredths of a percent
DrawdownSeries(prices) ==
    [i \in 1..Len(prices) |-> (10000 * prices[i]) \div RunningMax(prices)[i] - 10000]

\* drawdown.idxmin() as a position from 0: the first lowest entry
IdxMin(drawdown) ==
    (CHOOSE i \in 1..Len(drawdown) :
        /\ \A j \in 1..Len(drawdown) : drawdown[i] <= drawdown[j]
        /\ \A j \in 1..(i - 1) : drawdown[j] > drawdown[i]) - 1

\* the result of calculate_drawdown when an exception was caught
DrawdownDefault == [max_drawdown |-> Num(0), duration |-> 0]

\* calculate_drawdown(prices) for prices with a DatetimeIndex (a Close column
\* of the provider) or with a RangeIndex: on an empty series idxmin() raises,
\* with a DatetimeIndex prices.iloc[:Timestamp] raises, and with a RangeIndex
\* idxmax() of the empty prices.iloc[:0] raises; every exception is caught
calculate_drawdown(prices, index) ==
    IF prices = << >> \/ index = "DatetimeIndex" THEN DrawdownDefault
    ELSE IF IdxMin(DrawdownSeries(prices)) = 0 THEN DrawdownDefault
    ELSE [max_drawdown |-> Num(DrawdownSeries(prices)[IdxMin(DrawdownSeries(prices)) + 1]),
          duration |-> 0]

\* returns sorted ascending, as quantile() orders them
Sorted(q) == SortSeq(q, LAMBDA a, b : a < b)

\* calculate_var(returns, confidence = 0.95, window = 252): the 5% quantile
\* with linear interpolation, in percent
calculate_var(returns) ==
    LET s == Sorted(LastN(returns, 252))
        n == Len(s)
        i == (5 * (n - 1)) \div 100
        rem == (5 * (n - 1)) % 100
    IN  IF n = 0 THEN NaN
        ELSE IF rem = 0 THEN Num(100 * s[i + 1])
        ELSE Num(100 * s[i + 1] + rem * (s[i + 2] - s[i + 1]))

\* np.mean(values) of a list that may be empty
MeanOfAny(values) ==
    IF values = << >> \/ \E i \in 1..Len(values) : values[i].nan THEN NaN
    ELSE Num(SumSeq([i \in 1..Len(values) |-> values[i].v]) \div Len(values))

\* np.mean(values) if values else 0
MeanOrZero(values) ==
    IF values = << >> THEN Num(0)
    ELSE IF \E i \in 1..Len(values) : values[i].nan THEN NaN
    ELSE Num(SumSeq([i \in 1..Len(values) |-> values[i].v]) \div Len(values))

\* mutant: the comparisons admit the thresholds
RiskLevelInclusive(avg_volatility) ==
    IF ~avg_volatility.nan /\ avg_volatility.v >= 3000 THEN "Very High"
    ELSE IF ~avg_volatility.nan /\ avg_volatility.v >= 2000 THEN "High"
    ELSE IF ~avg_volatility.nan /\ avg_volatility.v >= 1500 THEN "Moderate to High"
    ELSE IF ~avg_volatility.nan /\ avg_volatility.v >= 1000 THEN "Moderate"
    ELSE "Low"

\* the risk level of an average volatility (hundredths of a percent)
RiskLevel(avg_volatility) ==
    IF Gt(avg_volatility, 3000) THEN "Very High"
    ELSE IF Gt(avg_volatility, 2000) THEN "High"
    ELSE IF Gt(avg_volatility, 1500) THEN "Moderate to High"
    ELSE IF Gt(avg_volatility, 1000) THEN "Moderate"
    ELSE "Low"

\* None, and the values Python treats as false in "if sector"
None == "<None>"
Falsy(x) == x = None \/ x = ""

\* region_mapping
Regions == {"Asia", "Europe", "North America"}
SectorOrder == <<"Technology", "Finance", "Consumer", "Healthcare">>
Sectors == {SectorOrder[i] : i \in 1..Len(SectorOrder)}
region_mapping ==
    [r \in Regions |-> [x \in Sectors |->
        CASE r = "Asia" /\ x = "Technology" -> <<"TSM", "005930.KS", "9988.HK", "0700.HK", "6758.T">>
          [] r = "Asia" /\ x = "Finance" -> <<"8306.T", "8316.T", "3988.HK", "1398.HK", "000001.SS">>
          [] r = "Asia" /\ x = "Consumer" -> <<"9633.T", "6758.T", "2330.TW", "1177.HK", "1211.HK">>
          [] r = "Asia" /\ x = "Healthcare" -> <<"4502.T", "4503.T", "1177.HK", "3320.HK", "1093.HK">>
          [] r = "Europe" /\ x = "Technology" -> <<"ASML.AS", "SAP.DE", "CAP.PA", "STM.PA", "ERIC-B.ST">>
          [] r = "Europe" /\ x = "Finance" -> <<"HSBA.L", "BNP.PA", "SAN.MC", "BBVA.MC", "DBK.DE">>
          [] r = "Europe" /\ x = "Consumer" -> <<"MC.PA", "OR.PA", "NESN.SW", "UL.AS", "AIR.PA">>
          [] r = "Europe" /\ x = "Healthcare" -> <<"ROG.SW", "SAN.PA", "NOVN.SW", "AZN.L", "GSK.L">>
          [] r = "North America" /\ x = "Technology" -> <<"AAPL", "MSFT", "GOOGL", "AMZN", "META">>
          [] r = "North America" /\ x = "Finance" -> <<"JPM", "BAC", "WFC", "C", "GS">>
          [] r = "North America" /\ x = "Consumer" -> <<"COST", "WMT", "HD", "NKE", "MCD">>
          [] r = "North America" /\ x = "Healthcare" -> <<"JNJ", "PFE", "MRK", "ABT", "UNH">>]]

\* the error results of analyze_risk_exposure
RegionNotSupported(region) == "Region '" \o region \o "' not supported"
\* mutant: the names of the sector and of the region change places
SectorNotSupportedSwapped(region, sector) ==
    "Sector '" \o region \o "' not supported for region '" \o sector \o "'"

SectorNotSupported(region, sector) ==
    "Sector '" \o sector \o "' not supported for region '" \o region \o "'"

\* region not in region_mapping
RegionUnknown(region) == region \notin DOMAIN region_mapping

\* sector and sector not in region_mapping[region]
SectorUnknown(region, sector) == ~Falsy(sector) /\ sector \notin DOMAIN region_mapping[region]

\* the tickers of a region and sector: those of the sector, or those of all
\* sectors of the region one list after the other
RECURSIVE ExtendAll(_, _)
ExtendAll(region, order) ==
    IF order = << >> THEN << >>
    ELSE region_mapping[region][Head(order)] \o ExtendAll(region, Tail(order))

ResolveTickers(region, sector) ==
    IF ~Falsy(sector) THEN region_mapping[region][sector]
    ELSE ExtendAll(region, SectorOrder)

\* the entries of stock_data (a dict: one per ticker, in the order of the
\* first assignment, holding the last value assigned)
DictItems(got) ==
    LET firsts == SelectSeq([i \in 1..Len(got) |-> i],
                            LAMBDA i : \A j \in 1..(i - 1) : got[j].ticker # got[i].ticker)
        LastOf(i) == CHOOSE j \in i..Len(got) :
                        /\ got[j].ticker = got[i].ticker
                        /\ \A l \in (j + 1)..Len(got) : got[l].ticker # got[i].ticker
    IN  [k \in 1..Len(firsts) |-> got[LastOf(firsts[k])]]

\* the metrics of one ticker against the benchmark
TickerMetrics(data, market) ==
    [volatility |-> calculate_volatility(data),
     beta |-> calculate_beta(data, market),
     var_95 |-> calculate_var(Returns(data))]

\* the report: the metrics of the tickers with rows (rows) against the
\* benchmark m, and the exposure report a
RiskReport(region, sector, tickers, rows, m, a) ==
    LET metrics == [i \in 1..Len(rows) |-> TickerMetrics(rows[i].result, m.result)]
        average == [volatility |-> MeanOrZero([i \in 1..Len(rows) |-> metrics[i].volatility]),
                    beta |-> MeanOrZero([i \in 1..Len(rows) |-> metrics[i].beta]),
                    var_95 |-> MeanOrZero([i \in 1..Len(rows) |-> metrics[i].var_95])]
        report == [region |-> region, sector |-> sector, tickers |-> tickers,
                   metrics |-> ToDict([i \in 1..Len(rows) |-> <<rows[i].ticker, metrics[i]>>]),
                   average_metrics |-> average,
                   risk_level |-> RiskLevel(average.volatility),
                   earnings_surprises |-> a.value.earnings_surprises]
    IN  IF region = "Asia"
        THEN [x \in (DOMAIN report) \cup {"sentiment"} |->
                IF x = "sentiment" THEN a.value.sentiment ELSE report[x]]
        ELSE report

\* after get_asia_tech_exposure a: the result of the analysis
WithExposure(region, sector, tickers, f, m, a) ==
    [cache |-> a.cache, cache_expiry |-> a.cache_expiry,
     fetches |-> f.fetches + m.fetches + a.fetches,
     value |-> RiskReport(region, sector, tickers,
                          SelectSeq(DictItems(SelectSeq(f.got, LAMBDA g : ~Raised(g))),
                                    HasRows),
                          m, a)]

\* after the benchmark fetch m: its exception ends the analysis
RiskFromMarket(cls, region, sector, tickers, f, m, mode, t) ==
    IF Raised(m)
    THEN [cache |-> m.cache, cache_expiry |-> m.cache_expiry,
          fetches |-> f.fetches + m.fetches,
          value |-> [error |-> "provider error"]]
    ELSE WithExposure(region, sector, tickers, f, m,
                      get_asia_tech_exposure(cls, StoreOf(m), mode, t))

\* after the loop over the tickers f: the benchmark fetch
RiskFromStocks(cls, region, sector, tickers, f, mode, t) ==
    RiskFromMarket(cls, region, sector, tickers, f,
                   get_stock_data(cls, StoreOf(f), "^GSPC", "1mo", "1d", mode, t),
                   mode, t)

analyze_risk_exposure(cls, st, region, sector, mode, t) ==
    IF RegionUnknown(region)
    THEN [cache |-> st.cache, cache_expiry |-> st.cache_expiry, fetches |-> 0,
          value |-> [error |-> RegionNotSupported(region)]]
    ELSE IF SectorUnknown(region, sector)
    THEN [cache |-> st.cache, cache_expiry |-> st.cache_expiry, fetches |-> 0,
          value |-> [error |-> SectorNotSupported(region, sector)]]
    ELSE RiskFromStocks(cls, region, sector, ResolveTickers(region, sector),
                        FetchEach(cls, st, ResolveTickers(region, sector),
                                  "1mo", "1d", mode, t),
                        mode, t)

\* analyze_portfolio.  The weights argument is None (given FALSE) or a list
\* of numbers; a weight of the result is the fraction num / den.
NoWeights == [given |-> FALSE, list |-> << >>]
Weights(list) == [given |-> TRUE, list |-> list]

\* w / sum(weights) raises ZeroDivisionError for some w
WeightsRaise(weights) ==
    weights.given /\ weights.list # << >> /\ SumSeq(weights.list) = 0

\* weights after the default and the normalisation
NormalizedWeights(portfolio_tickers, weights) ==
    IF weights.given
    THEN [i \in 1..Len(weights.list) |->
             [num |-> weights.list[i], den |-> SumSeq(weights.list)]]
    ELSE [i \in 1..Len(portfolio_tickers) |-> [num |-> 1, den |-> Len(portfolio_tickers)]]

\* how the body of the loop ended for one ticker, given the benchmark m: the
\* fetch raised, data['Close'] or market_data['Close'] raised KeyError on a
\* frame without rows, or the metrics were stored
TickerOutcome(g, m) ==
    IF Raised(g) THEN "fetch raised"
    ELSE IF g.result = EmptyFrame THEN "no Close in data"
    ELSE IF m.result = EmptyFrame THEN "no Close in market_data"
    ELSE "metrics stored"

\* mutant: the entry of a ticker whose body raised is the bundle of an empty
\* series
TickerEntryNoError(g, m) ==
    IF TickerOutcome(g, m) = "metrics stored"
    THEN [volatility |-> calculate_volatility(g.result),
          beta |-> calculate_beta(g.result, m.result),
          sharpe_ratio |-> calculate_sharpe_ratio(Returns(g.result)),
          max_drawdown |-> calculate_drawdown(g.result, "DatetimeIndex").max_drawdown,
          drawdown_duration |-> calculate_drawdown(g.result, "DatetimeIndex").duration,
          var_95 |-> calculate_var(Returns(g.result))]
    ELSE [volatility |-> NaN, beta |-> NaN, sharpe_ratio |-> NaN,
          max_drawdown |-> Num(0), drawdown_duration |-> 0, var_95 |-> NaN]

\* individual_metrics[ticker] as the body of the loop leaves it
TickerEntry(g, m) ==
    IF TickerOutcome(g, m) = "metrics stored"
    THEN [volatility |-> calculate_volatility(g.result),
          beta |-> calculate_beta(g.result, m.result),
          sharpe_ratio |-> calculate_sharpe_ratio(Returns(g.result)),
          max_drawdown |-> calculate_drawdown(g.result, "DatetimeIndex").max_drawdown,
          drawdown_duration |-> calculate_drawdown(g.result, "DatetimeIndex").duration,
          var_95 |-> calculate_var(Returns(g.result))]
    ELSE [error |-> TickerOutcome(g, m)]

\* the tickers with an entry in returns_data: data['Close'] did not raise
HasReturns(g) == ~Raised(g) /\ g.result # EmptyFrame

\* portfolio_returns: the weighted returns added up over zip(tickers,
\* weights), as numerators over the sum of the input weights
PortfolioReturns(got, weights) ==
    LET pairs == {i \in 1..Len(got) : i <= Len(weights) /\ HasReturns(got[i])}
        length == IF \E i \in 1..Len(got) : HasReturns(got[i]) /\ Len(got[i].result) > 1
                  THEN Len(Returns((CHOOSE g \in {got[i] : i \in 1..Len(got)} :
                                       HasReturns(g) /\ Len(g.result) > 1).result))
                  ELSE 0
    IN  [k \in 1..length |->
            SumSeq([i \in 1..Len(got) |->
                       IF i \in pairs /\ k <= Len(Returns(got[i].result))
                       THEN Returns(got[i].result)[k] * weights[i].num ELSE 0])]

\* portfolio_beta: the betas of the entries times the weights, over
\* zip(tickers, weights); an entry without beta counts 0
PortfolioBeta(got, weights, m) ==
    LET n == IF Len(got) < Len(weights) THEN Len(got) ELSE Len(weights)
        betas == [i \in 1..n |->
                     IF TickerOutcome(got[i], m) = "metrics stored"
                     THEN calculate_beta(got[i].result, m.result) ELSE Num(0)]
    IN  IF \E i \in 1..n : betas[i].nan THEN NaN
        ELSE Num(SumSeq([i \in 1..n |-> betas[i].v * weights[i].num]))

\* the dict the call returns.  The portfolio value series has the index of
\* the returns, a DatetimeIndex; volatility, sharpe_ratio, var_95 and the
\* correlation matrix are computed from returns and from the series of
\* returns_data by calls that do not raise
PortfolioMetrics(portfolio_tickers, weights, f, m) ==
    [tickers |-> portfolio_tickers,
     weights |-> weights,
     individual_metrics |->
        ToDict([i \in 1..Len(f.got) |-> <<f.got[i].ticker, TickerEntry(f.got[i], m)>>]),
     portfolio_metrics |->
        [returns |-> PortfolioReturns(f.got, weights),
         beta |-> PortfolioBeta(f.got, weights, m),
         max_drawdown |->
            calculate_drawdown(PortfolioReturns(f.got, weights), "DatetimeIndex").max_drawdown,
         drawdown_duration |->
            calculate_drawdown(PortfolioReturns(f.got, weights), "DatetimeIndex").duration,
         correlation_matrix |-> {f.got[i].ticker : i \in {j \in 1..Len(f.got) : HasReturns(f.got[j])}}]]

\* the outer except clause: the call returns {'error': str(e)}
PortfolioError(e, st, fetches, attempts) ==
    [cache |-> st.cache, cache_expiry |-> st.cache_expiry, fetches |-> fetches,
     attempts |-> attempts, value |-> [error |-> e]]

\* what the loop did, ticker by ticker
Attempts(f, m) ==
    [i \in 1..Len(f.got) |->
        [ticker |-> f.got[i].ticker, outcome |-> TickerOutcome(f.got[i], m)]]

\* after the loop f: next(iter(returns_data.values())) raises StopIteration
\* when no ticker has returns
PortfolioFromStocks(portfolio_tickers, weights, f, m) ==
    IF \A i \in 1..Len(f.got) : ~HasReturns(f.got[i])
    THEN PortfolioError("", StoreOf(f), m.fetches + f.fetches, Attempts(f, m))
    ELSE [cache |-> f.cache, cache_expiry |-> f.cache_expiry,
          fetches |-> m.fetches + f.fetches, attempts |-> Attempts(f, m),
          value |-> PortfolioMetrics(portfolio_tickers, weights, f, m)]

\* after the benchmark fetch m: its exception ends the call
PortfolioFromMarket(cls, portfolio_tickers, weights, m, mode, t) ==
    IF Raised(m) THEN PortfolioError("provider error", StoreOf(m), m.fetches, << >>)
    ELSE PortfolioFromStocks(portfolio_tickers, weights,
                             FetchEach(cls, StoreOf(m), portfolio_tickers, "1y", "1d", mode, t),
                             m)

analyze_portfolio(cls, st, portfolio_tickers, weights, mode, t) ==
    IF WeightsRaise(weights) THEN PortfolioError("division by zero", st, 0, << >>)
    ELSE PortfolioFromMarket(cls, portfolio_tickers,
                             NormalizedWeights(portfolio_tickers, weights),
                             get_stock_data(cls, st, "^GSPC", "1y", "1d", mode, t),
                             mode, t)

(***************************************************************************)
(* Text.  A query is the sequence of its words; an entity is one string.   *)
(***************************************************************************)
\* an entity that is not a string (a JSON number in the reply's list)
NotAString == "<number>"

\* str.lower() on the strings of the model
Lower(w) ==
    CASE w \in {"Asia", "ASIA"} -> "asia"
      [] w = "Europe" -> "europe"
      [] w = "North America" -> "north america"
      [] w = "Emerging Markets" -> "emerging markets"
      [] w \in {"Technology", "TECHNOLOGY"} -> "technology"
      [] w = "Tech" -> "tech"
      [] w = "Finance" -> "finance"
      [] w = "Energy" -> "energy"
      [] w = "Apple" -> "apple"
      [] w = "TSMC" -> "tsmc"
      [] w = "AAPL" -> "aapl"
      [] w = "TSM" -> "tsm"
      [] w = "How" -> "how"
      [] w = "Risk" -> "risk"
      [] w = "Market" -> "market"
      [] w = "Stock" -> "stock"
      [] OTHER -> w

\* sub in w, for lower-case w and the substrings the program looks for
Within(sub, w) ==
    \/ w = sub
    \/ sub = "tech" /\ w = "technology"
    \/ sub = "market" /\ w = "markets"

\* sub in query.lower()
Contains(query, sub) == \E i \in 1..Len(query) : Within(sub, Lower(query[i]))

\* entity.isupper() and len(entity) <= 5
IsUpperShort(entity) == entity \in {"AAPL", "TSM", "ASIA", "XOM", "BABA", "MEITF"}

(***************************************************************************)
(* LanguageAgent.  reply is what the chat-completion call gave: the call   *)
(* raised ("call error"), the content is not JSON ("unparsable"), or it is *)
(* the JSON object reply.object.  A confidence is in hundredths.           *)
(***************************************************************************)
\* str(e) of the exception analyze_query_intent caught
ErrorText(kind) ==
    IF kind = "call error" THEN "Connection error."
    ELSE "Expecting value: line 1 column 1 (char 0)"

\* mutant: the fallback intent without the record of the error
analyze_query_intent_bare(reply) ==
    IF reply.kind = "json" THEN reply.object
    ELSE [primary_intent |-> "unknown", entities |-> << >>, timeframe |-> "current",
          requires_numeric_data |-> TRUE, confidence |-> 0]

analyze_query_intent(reply) ==
    IF reply.kind = "json" THEN reply.object
    ELSE [primary_intent |-> "unknown", entities |-> << >>, timeframe |-> "current",
          requires_numeric_data |-> TRUE, confidence |-> 0,
          error |-> ErrorText(reply.kind)]

\* the text generate_response returns when its call raises
ApologyText ==
    "I apologize, but I encountered an error processing your request. "
        \o "Please try again later. Error: Connection error."

\* generate_response(query, context): the content of the completion, or the
\* apology when the call raises
generate_response(query, context, narration) ==
    IF narration.raised THEN ApologyText ELSE narration.content

(***************************************************************************)
(* LanguageService.analyze_query_intent: the keyword classifier.           *)
(***************************************************************************)
\* the keys of intents, in the order of the dict
IntentKeywords ==
    <<"portfolio", "risk", "exposure", "market", "indices", "sector", "stock",
      "price", "economic", "treasury", "yield", "earnings">>

\* intents[keyword]
IntentOfKeyword(keyword) ==
    CASE keyword = "portfolio" -> "portfolio_analysis"
      [] keyword \in {"risk", "exposure"} -> "risk_assessment"
      [] keyword \in {"market", "indices", "sector"} -> "market_info"
      [] keyword \in {"stock", "price", "earnings"} -> "stock_specific"
      [] keyword \in {"economic", "treasury", "yield"} -> "economic_data"

\* query_lower.count(keyword)
CountIn(query, keyword) ==
    Cardinality({i \in 1..Len(query) : Within(keyword, Lower(query[i]))})

\* the loop over intents.items() from the i-th keyword on, with the
\* max_count and primary_intent it has so far
RECURSIVE ScanKeywords(_, _, _, _)
ScanKeywords(query, i, max_count, primary_intent) ==
    IF i > Len(IntentKeywords) THEN primary_intent
    ELSE IF CountIn(query, IntentKeywords[i]) > max_count
    THEN ScanKeywords(query, i + 1, CountIn(query, IntentKeywords[i]),
                      IntentOfKeyword(IntentKeywords[i]))
    ELSE ScanKeywords(query, i + 1, max_count, primary_intent)

\* the keys of entities, in the order of the dict
EntityKeywords ==
    <<"asia", "europe", "america", "tech", "technology", "financial", "finance",
      "healthcare", "consumer", "energy">>

\* entities[keyword]
EntityOfKeyword(keyword) ==
    CASE keyword = "asia" -> "Asia"
      [] keyword = "europe" -> "Europe"
      [] keyword = "america" -> "North America"
      [] keyword \in {"tech", "technology"} -> "Technology"
      [] keyword \in {"financial", "finance"} -> "Finance"
      [] keyword = "healthcare" -> "Healthcare"
      [] keyword = "consumer" -> "Consumer"
      [] keyword = "energy" -> "Energy"

\* q without the items that occurred earlier in it ("x not in found")
FirstOnly(q) ==
    SelectSeq([i \in 1..Len(q) |-> IF \E j \in 1..(i - 1) : q[j] = q[i] THEN "" ELSE q[i]],
              LAMBDA x : x # "")

\* found_entities: the entities of the keywords in the query, then the
\* words that look like tickers
FoundEntities(query) ==
    LET hits == SelectSeq(EntityKeywords, LAMBDA k : Contains(query, k))
        named == FirstOnly([i \in 1..Len(hits) |-> EntityOfKeyword(hits[i])])
        upper == SelectSeq(query, IsUpperShort)
    IN  FirstOnly(named \o upper)

\* timeframe
TimeframeOf(query) ==
    IF Contains(query, "today") THEN "today"
    ELSE IF Contains(query, "week") THEN "week"
    ELSE IF Contains(query, "month") THEN "month"
    ELSE IF Contains(query, "year") THEN "year"
    ELSE "current"

\* "how much" / "how many" in query_lower
HowMuchOrMany(query) ==
    \E i \in 1..(Len(query) - 1) :
        Lower(query[i]) = "how" /\ Lower(query[i + 1]) \in {"much", "many"}

\* requires_numeric_data
RequiresNumericData(query) ==
    \/ \E k \in {"price", "percent", "change", "value", "number", "amount"} :
          Contains(query, k)
    \/ HowMuchOrMany(query)

\* LanguageService.analyze_query_intent(query)
keyword_query_intent(query) ==
    [primary_intent |-> ScanKeywords(query, 1, 0, "unknown"),
     entities |-> FoundEntities(query),
     timeframe |-> TimeframeOf(query),
     requires_numeric_data |-> RequiresNumericData(query),
     confidence |-> 80]

(***************************************************************************)
(* RetrieverAgent.retrieve(query, k = 5): the items it returns, or it      *)
(* raises.                                                                 *)
(***************************************************************************)
retrieve(query, retrieval) ==
    IF retrieval = "raise" THEN [raised |-> TRUE, items |-> << >>]
    ELSE [raised |-> FALSE, items |-> <<"document", "document">>]

(***************************************************************************)
(* AgentRouter (the class definition in effect, the second one of          *)
(* router.py).  A handler yields what it returned or the exception it let  *)
(* through, the store it left, the upstream calls it issued, the calls it  *)
(* made on its collaborators and the context it built.                     *)
(***************************************************************************)
Returned(text, data, st, fetches, calls, context) ==
    [outcome |-> "returned", text |-> text, data |-> data, error |-> "",
     cache |-> st.cache, cache_expiry |-> st.cache_expiry, fetches |-> fetches,
     calls |-> calls, context |-> context]

RaisedBy(e, st, fetches, calls, context) ==
    [outcome |-> "raised", text |-> "", data |-> EmptyMap, error |-> e,
     cache |-> st.cache, cache_expiry |-> st.cache_expiry, fetches |-> fetches,
     calls |-> calls, context |-> context]

\* d.get(key, default)
Get(d, key, default) == IF key \in DOMAIN d THEN d[key] ELSE default

\* an entity on which a str method cannot be called
HasNonString(entities) == \E i \in 1..Len(entities) : entities[i] = NotAString

\* the exception of calling a str method on a number
AttributeErrorText == "'int' object has no attribute 'lower'"

\* the response from the two data sets and the context ctx
MarketInfoFrom(query, ctx, narration, indices, sectors) ==
    Returned(generate_response(query, ctx, narration),
             [indices |-> indices.value, sectors |-> sectors.value],
             StoreOf(sectors), indices.fetches + sectors.fetches,
             <<"get_market_indices", "get_sector_performance", "generate_response">>,
             ctx)

\* after get_market_indices: get_sector_performance
MarketInfoAfter(cls, query, context, narration, indices, mode, t) ==
    MarketInfoFrom(query, context \o <<"market_indices", "sector_performance">>, narration,
                   indices, get_sector_performance(cls, StoreOf(indices), mode, t))

handle_market_info(cls, st, query, entities, context, narration, mode, t) ==
    MarketInfoAfter(cls, query, context, narration,
                    get_market_indices(cls, st, mode, t), mode, t)

\* a response around one data set
OneDataSet(query, ctx, narration, gathered, data, call) ==
    Returned(generate_response(query, ctx, narration), data,
             StoreOf(gathered), gathered.fetches, <<call, "generate_response">>, ctx)

\* the response to a portfolio_analysis query around the portfolio
PortfolioResponse(query, ctx, narration, portfolio) ==
    OneDataSet(query, ctx, narration, portfolio, portfolio.value, "get_portfolio_data")

handle_portfolio_analysis(cls, st, query, entities, context, narration, mode, t) ==
    PortfolioResponse(query, Append(context, "portfolio_data"), narration,
                      get_portfolio_data(cls, st, mode, t))

\* the vocabularies of _handle_risk_assessment
RegionVocabulary == {"asia", "europe", "north america", "emerging markets"}
SectorVocabulary == {"technology", "finance", "healthcare", "consumer", "energy"}

IsRegionEntity(entity) == Lower(entity) \in RegionVocabulary
IsSectorEntity(entity) == ~IsRegionEntity(entity) /\ Lower(entity) \in SectorVocabulary

\* the value a variable holds after the loop over the entities assigned it
\* the entities at the positions matching, starting from None
LastAt(entities, matching) ==
    IF matching = {} THEN None
    ELSE entities[CHOOSE i \in matching : \A j \in matching : j <= i]

NamedRegion(entities) ==
    LastAt(entities, {i \in 1..Len(entities) : IsRegionEntity(entities[i])})

NamedSector(entities) ==
    LastAt(entities, {i \in 1..Len(entities) : IsSectorEntity(entities[i])})

\* a sector that defaults to Technology whatever the query says
RiskSectorAlwaysTech(query, entities) ==
    IF Falsy(NamedSector(entities)) THEN "Technology" ELSE NamedSector(entities)

\* the region and sector passed to analyze_risk_exposure
RiskRegion(entities) ==
    IF Falsy(NamedRegion(entities)) THEN "Asia" ELSE NamedRegion(entities)

RiskSector(query, entities) ==
    IF Falsy(NamedSector(entities)) /\ Contains(query, "tech")
    THEN "Technology"
    ELSE NamedSector(entities)

\* the response around the exposure, with the Asia tech report fetched too
RiskWithAsiaTech(query, ctx, narration, exposure, asia_tech) ==
    Returned(generate_response(query, ctx, narration), exposure.value,
             StoreOf(asia_tech), exposure.fetches + asia_tech.fetches,
             <<"analyze_risk_exposure", "get_asia_tech_exposure", "generate_response">>,
             ctx)

\* after analyze_risk_exposure: the Asia tech report when the query is about
\* Asia tech stocks
RiskAfterExposure(cls, query, context, narration, exposure, mode, t) ==
    IF Contains(query, "asia") /\ Contains(query, "tech")
    THEN RiskWithAsiaTech(query, context \o <<"risk_exposure", "asia_tech_exposure">>,
                          narration, exposure,
                          get_asia_tech_exposure(cls, StoreOf(exposure), mode, t))
    ELSE OneDataSet(query, Append(context, "risk_exposure"), narration, exposure,
                    exposure.value, "analyze_risk_exposure")

handle_risk_assessment(cls, st, query, entities, context, narration, mode, t) ==
    IF HasNonString(entities)
    THEN RaisedBy(AttributeErrorText, st, 0, << >>, context)
    ELSE RiskAfterExposure(cls, query, context, narration,
                           analyze_risk_exposure(cls, st, RiskRegion(entities),
                                                 RiskSector(query, entities), mode, t),
                           mode, t)

\* common_stocks, in the order of the dict
common_stocks ==
    << <<"apple", "AAPL">>, <<"microsoft", "MSFT">>, <<"google", "GOOGL">>,
       <<"amazon", "AMZN">>, <<"tesla", "TSLA">>, <<"facebook", "META">>,
       <<"nvidia", "NVDA">>, <<"tsmc", "TSM">>, <<"samsung", "005930.KS">>,
       <<"alibaba", "BABA">>, <<"tencent", "0700.HK">> >>

InSeq(x, q) == \E i \in 1..Len(q) : q[i] = x

\* the tickers of a stock_specific query: the entities that look like
\* tickers, then the tickers of the company names in the query
StockTickers(query, entities) ==
    LET from_entities == SelectSeq(entities, IsUpperShort)
        named == SelectSeq(common_stocks,
                           LAMBDA p : Contains(query, p[1]) /\ ~InSeq(p[2], from_entities))
    IN  from_entities \o [i \in 1..Len(named) |-> named[i][2]]

\* one sequence after the other
RECURSIVE ConcatAll(_)
ConcatAll(seqs) ==
    IF seqs = << >> THEN << >> ELSE Head(seqs) \o ConcatAll(Tail(seqs))

\* an iteration that appends the news before the prices
StockItemsNewsFirst(mode, g) ==
    IF Raised(g) THEN << >>
    ELSE (IF get_stock_news(mode, g.ticker) # << >> THEN <<"stock_news">> ELSE << >>)
            \o (IF HasRows(g) THEN <<"stock_data">> ELSE << >>)

\* what one iteration of the ticker loop appends to the context, and calls
StockItems(mode, g) ==
    IF Raised(g) THEN << >>
    ELSE (IF HasRows(g) THEN <<"stock_data">> ELSE << >>)
            \o (IF get_stock_news(mode, g.ticker) # << >> THEN <<"stock_news">> ELSE << >>)

StockCalls(g) ==
    IF Raised(g) THEN <<"get_stock_data">> ELSE <<"get_stock_data", "get_stock_news">>

\* a loop that ends at the first ticker without a series
PricedUntilFailure(got) ==
    SelectSeq([i \in 1..Len(got) |-> [g |-> got[i], i |-> i]],
              LAMBDA p : \A j \in 1..p.i : HasRows(got[j]))

\* the calls of the loop that gave a series with rows
Priced(got) ==
    SelectSeq([i \in 1..Len(got) |-> [g |-> got[i], i |-> i]], LAMBDA p : HasRows(p.g))

\* the response from what the loop over the tickers gave
StocksFrom(query, context, narration, mode, f) ==
    LET priced == [i \in 1..Len(Priced(f.got)) |-> Priced(f.got)[i].g]
        stock_data == ToDict([i \in 1..Len(priced) |->
                        <<priced[i].ticker,
                          [price |-> LastClose(priced[i].result),
                           change_percent |-> Pct(LastClose(priced[i].result),
                                                  PrevClose(priced[i].result))]>>])
        ctx == context \o ConcatAll([i \in 1..Len(f.got) |-> StockItems(mode, f.got[i])])
    IN  Returned(generate_response(query, ctx, narration), [stocks |-> stock_data],
                 StoreOf(f),
                 f.fetches + Len(SelectSeq(f.got, LAMBDA g : ~Raised(g))),
                 ConcatAll([i \in 1..Len(f.got) |-> StockCalls(f.got[i])])
                     \o <<"generate_response">>,
                 ctx)

handle_stock_specific(cls, st, query, entities, context, narration, mode, t) ==
    IF HasNonString(entities)
    THEN RaisedBy(AttributeErrorText, st, 0, << >>, context)
    ELSE StocksFrom(query, context, narration, mode,
                    FetchEach(cls, st, StockTickers(query, entities), "1d", "1h", mode, t))

\* the response to an economic_data query around the indicators
IndicatorsResponse(query, ctx, narration, indicators) ==
    OneDataSet(query, ctx, narration, indicators, [indicators |-> indicators.value],
               "get_economic_indicators")

handle_economic_data(cls, st, query, entities, context, narration, mode, t) ==
    IndicatorsResponse(query, Append(context, "economic_indicators"), narration,
                       get_economic_indicators(cls, st, mode, t))

handle_default(st, query, context, narration) ==
    Returned(generate_response(query, context, narration), EmptyMap, st, 0,
             <<"generate_response">>, context)

\* the handler of the intent, on the context retrieved
Dispatch(cls, st, query, primary_intent, entities, context, narration, mode, t) ==
    CASE primary_intent = "market_info" ->
            handle_market_info(cls, st, query, entities, context, narration, mode, t)
      [] primary_intent = "portfolio_analysis" ->
            handle_portfolio_analysis(cls, st, query, entities, context, narration, mode, t)
      [] primary_intent = "risk_assessment" ->
            handle_risk_assessment(cls, st, query, entities, context, narration, mode, t)
      [] primary_intent = "stock_specific" ->
            handle_stock_specific(cls, st, query, entities, context, narration, mode, t)
      [] primary_intent = "economic_data" ->
            handle_economic_data(cls, st, query, entities, context, narration, mode, t)
      [] OTHER -> handle_default(st, query, context, narration)

\* what route_query hands back after the call of retrieve and the handler
Routed(h) == [h EXCEPT !.calls = <<"retrieve">> \o @]

route_query(cls, st, query, intent, retrieval, narration, mode, t) ==
    IF retrieve(query, retrieval).raised
    THEN RaisedBy("retriever error", st, 0, <<"retrieve">>, << >>)
    ELSE Routed(Dispatch(cls, st, query, Get(intent, "primary_intent", "unknown"),
                         Get(intent, "entities", << >>),
                         retrieve(query, retrieval).items, narration, mode, t))

(***************************************************************************)
(* The orchestrator (main.py).                                             *)
(***************************************************************************)
DATA_INGESTION_INTERVAL == 3600

\* a guard that lets every trigger ingest
IngestionDueAlways(last, t) == TRUE

\* the guard of ingest_data_periodically, on the current_time it read
IngestionDue(last, t) == t - last > DATA_INGESTION_INTERVAL

\* a run that stamps the time whether it succeeded or raised
ingest_data_periodically_stamped(last, t, ingestion) ==
    IF IngestionDue(last, t) THEN t ELSE last

\* ingest_data_periodically at time t: the new last_data_ingestion.  The
\* run is skipped inside the interval; a run that raises leaves the
\* timestamp alone.
ingest_data_periodically(last, t, ingestion) ==
    IF IngestionDue(last, t) /\ ingestion = "ok" THEN t ELSE last

\* the query of a request body: request.get("query", "")
QueryOf(request) == IF request.has_query THEN request.query ELSE << >>

\* process_query after the classifier gave intent and route_query gave r
Processed(intent, r) ==
    [response |->
        IF r.outcome = "raised"
        THEN [status_code |-> 500,
              content |-> [error |-> "Error processing query: " \o r.error]]
        ELSE [status_code |-> 200,
              content |-> [text |-> r.text, data |-> r.data]],
     classified |-> TRUE, intent |-> intent, routed |-> r.outcome, scheduled |-> 1,
     cache |-> r.cache, cache_expiry |-> r.cache_expiry,
     fetches |-> r.fetches,
     calls |-> <<"analyze_query_intent">> \o r.calls,
     context |-> r.context]

\* a process_query that schedules the ingestion before it looks at the query
process_query_schedule_first(cls, st, request, reply, retrieval, narration, mode, t) ==
    IF QueryOf(request) = << >>
    THEN [response |-> [status_code |-> 400,
                        content |-> [error |-> "No query provided"]],
          classified |-> FALSE, intent |-> EmptyMap, routed |-> "not called",
          scheduled |-> 1,
          cache |-> st.cache, cache_expiry |-> st.cache_expiry,
          fetches |-> 0, calls |-> << >>, context |-> << >>]
    ELSE Processed(analyze_query_intent(reply),
                   route_query(cls, st, QueryOf(request), analyze_query_intent(reply),
                               retrieval, narration, mode, t))

\* process_query on the request body: the response, the intent when the
\* classifier ran, the tasks scheduled, and what route_query did
process_query(cls, st, request, reply, retrieval, narration, mode, t) ==
    IF QueryOf(request) = << >>
    THEN [response |-> [status_code |-> 400,
                        content |-> [error |-> "No query provided"]],
          classified |-> FALSE, intent |-> EmptyMap, routed |-> "not called",
          scheduled |-> 0,
          cache |-> st.cache, cache_expiry |-> st.cache_expiry,
          fetches |-> 0, calls |-> << >>, context |-> << >>]
    ELSE Processed(analyze_query_intent(reply),
                   route_query(cls, st, QueryOf(request), analyze_query_intent(reply),
                               retrieval, narration, mode, t))

\* the store of the agent
Store == [cache |-> cache, cache_expiry |-> cache_expiry]

\* the record of fetch times after a call that issued r.fetches upstream
\* calls, answered by reply
NoteFetch(lf, key, r, reply, t) ==
    IF r.fetches = 1 /\ ~reply.raised THEN Put(lf, key, t) ELSE lf

(***************************************************************************)
(* Environment.                                                            *)
(***************************************************************************)
\* time passes
Tick ==
    /\ now + ClockStep <= MaxTime
    /\ now' = now + ClockStep
    /\ UNCHANGED <<provider, agent, cacheVars, obsVars, concVars, lastRisk, lastEval, ingest, appVars>>

\* the upstream provider changes state
ProviderChange ==
    /\ \E m \in ProviderModes \ {provider} : provider' = m
    /\ UNCHANGED <<now, agent, cacheVars, obsVars, concVars, lastRisk, lastEval, ingest, appVars>>

(***************************************************************************)
(* A caller of get_stock_data (get_multiple_stocks, the aggregator, a      *)
(* test): the call and what the caller observes of it.                     *)
(***************************************************************************)
DirectRequests == { <<"TSM", "1d", "1h">>, <<"0700.HK", "1mo", "1d">> }

NoCall ==
    [key |-> "", at |-> 0, outcome |-> "none", result |-> EmptyFrame, fetches |-> 0,
     had_entry |-> FALSE, old_expiry |-> 0, old_data |-> EmptyFrame,
     prior_fetch |-> -1, replied |-> [raised |-> FALSE, data |-> EmptyFrame]]

GetStockData ==
    /\ \E rq \in DirectRequests :
          LET key == CacheKey(rq[1], rq[2], rq[3])
              r == get_stock_data(agent, Store, rq[1], rq[2], rq[3], provider, now)
          IN  /\ cache' = r.cache
              /\ cache_expiry' = r.cache_expiry
              /\ last_fetch' = NoteFetch(last_fetch, key, r,
                                         History(provider, rq[1], rq[2], rq[3], now), now)
              /\ lastCall' =
                    [key |-> key, at |-> now, outcome |-> r.outcome,
                     result |-> r.result, fetches |-> r.fetches,
                     had_entry |-> key \in DOMAIN cache,
                     old_expiry |-> ExpiryOf(cache_expiry, key),
                     old_data |-> IF key \in DOMAIN cache THEN cache[key] ELSE EmptyFrame,
                     prior_fetch |-> IF key \in DOMAIN last_fetch
                                     THEN last_fetch[key] ELSE -1,
                     replied |-> History(provider, rq[1], rq[2], rq[3], now)]
    /\ UNCHANGED <<envVars, agent, concVars, lastRisk, lastEval, ingest, appVars>>

(***************************************************************************)
(* Concurrent callers of get_stock_data on one key: each statement of the  *)
(* method is a step of its own.                                            *)
(***************************************************************************)
Threads == 1..MaxThreads

\* the key the callers contend for
SharedRequest == <<"TSM", "1d", "1h">>
SharedKey == CacheKey(SharedRequest[1], SharedRequest[2], SharedRequest[3])

NoFill == <<0, 0>>

IdleThread ==
    [pc |-> "idle", round |-> 0, data |-> EmptyFrame, outcome |-> "none",
     result |-> EmptyFrame, hit |-> FALSE, saw_expiry |-> NoFill, saw_series |-> NoFill]

\* a caller enters get_stock_data
Call(t) ==
    /\ threads[t].pc \in {"idle", "done"}
    /\ threads[t].round < MaxRounds
    /\ threads' = [threads EXCEPT ![t] =
            [IdleThread EXCEPT !.pc = "check", !.round = threads[t].round + 1]]
    /\ UNCHANGED <<envVars, agent, cacheVars, obsVars, series_fill, expiry_fill, lastRisk, lastEval, ingest, appVars>>

\* if cache_key in self.cache and self.cache_expiry.get(cache_key, 0) > now
Check(t) ==
    /\ threads[t].pc = "check"
    /\ threads' = [threads EXCEPT ![t] =
            IF IsCached(cache, cache_expiry, SharedKey, now)
            THEN [@ EXCEPT !.pc = "hit", !.hit = TRUE, !.saw_expiry = expiry_fill]
            ELSE [@ EXCEPT !.pc = "fetch"]]
    /\ UNCHANGED <<envVars, agent, cacheVars, obsVars, series_fill, expiry_fill, lastRisk, lastEval, ingest, appVars>>

\* return self.cache[cache_key]
ReturnCached(t) ==
    /\ threads[t].pc = "hit"
    /\ threads' = [threads EXCEPT ![t] =
            [@ EXCEPT !.pc = "done", !.outcome = "returned",
                      !.result = cache[SharedKey], !.saw_series = series_fill]]
    /\ UNCHANGED <<envVars, agent, cacheVars, obsVars, series_fill, expiry_fill, lastRisk, lastEval, ingest, appVars>>

\* data = stock.history(period=period, interval=interval), and the except clause
Fetch(t) ==
    /\ threads[t].pc = "fetch"
    /\ LET reply == History(provider, SharedRequest[1], SharedRequest[2],
                            SharedRequest[3], now)
       IN  threads' = [threads EXCEPT ![t] =
                IF reply.raised
                THEN [@ EXCEPT !.pc = "done", !.outcome = OnFetchError(agent).outcome,
                               !.result = OnFetchError(agent).result]
                ELSE [@ EXCEPT !.pc = "store_series", !.data = reply.data]]
    /\ UNCHANGED <<envVars, agent, cacheVars, obsVars, series_fill, expiry_fill, lastRisk, lastEval, ingest, appVars>>

\* self.cache[cache_key] = data
StoreSeries(t) ==
    /\ threads[t].pc = "store_series"
    /\ cache' = Put(cache, SharedKey, threads[t].data)
    /\ series_fill' = <<t, threads[t].round>>
    /\ threads' = [threads EXCEPT ![t] = [@ EXCEPT !.pc = "store_expiry"]]
    /\ UNCHANGED <<envVars, agent, cache_expiry, obsVars, expiry_fill, lastRisk, lastEval, ingest, appVars>>

\* self.cache_expiry[cache_key] = now + self.cache_duration; return data
StoreExpiry(t) ==
    /\ threads[t].pc = "store_expiry"
    /\ cache_expiry' = Put(cache_expiry, SharedKey, NewExpiry(now))
    /\ expiry_fill' = <<t, threads[t].round>>
    /\ threads' = [threads EXCEPT ![t] =
            [@ EXCEPT !.pc = "done", !.outcome = "returned", !.result = threads[t].data]]
    /\ UNCHANGED <<envVars, agent, cache, obsVars, series_fill, lastRisk, lastEval, ingest, appVars>>

InitThreads ==
    /\ threads = [t \in Threads |-> IdleThread]
    /\ series_fill = NoFill
    /\ expiry_fill = NoFill

(***************************************************************************)
(* A caller of analyze_risk_exposure (generate_morning_brief, the router,  *)
(* a test): the call and what the caller observes of it.                   *)
(***************************************************************************)
RiskRegions == {"Asia", "Europe", "Emerging Markets", "asia"}
RiskSectors == {None, "", "Technology", "Unknown", "Energy"}

NoRiskCall ==
    [n |-> 0, region |-> "", sector |-> None, fetches |-> 0, value |-> [error |-> ""]]

AnalyzeRiskExposure ==
    /\ lastRisk.n < MaxRiskCalls
    /\ \E region \in RiskRegions, sector \in RiskSectors :
          \E r \in {analyze_risk_exposure(agent, Store, region, sector, provider, now)} :
              /\ cache' = r.cache
              /\ cache_expiry' = r.cache_expiry
              /\ lastRisk' = [n |-> lastRisk.n + 1, region |-> region, sector |-> sector,
                              fetches |-> r.fetches, value |-> r.value]
    /\ UNCHANGED <<envVars, agent, obsVars, concVars, lastEval, ingest, appVars>>

(***************************************************************************)
(* The server: startup, process requests, background ingestion tasks.      *)
(***************************************************************************)
\* the event loop before the startup event: no ingestion run is in progress
\* (running, with the current_time it read), none was made (log), no request
\* has arrived
NoIngestion ==
    [running |-> FALSE, current_time |-> 0, log |-> << >>, skipped |-> 0,
     arrived |-> 0, waiting |-> 0]

\* no direct call of a function made yet
NoEval == [op |-> "none"]

\* request bodies
Queries ==
    {<<"Asia", "tech", "risk">>, <<"How", "is", "Apple">>}
Requests ==
    {[has_query |-> TRUE, query |-> q] : q \in Queries}
        \cup {[has_query |-> TRUE, query |-> << >>], [has_query |-> FALSE, query |-> << >>]}

\* JSON objects the chat completion can reply with
Intent(primary_intent, entities, confidence) ==
    [primary_intent |-> primary_intent, entities |-> entities, timeframe |-> "today",
     requires_numeric_data |-> TRUE, confidence |-> confidence]

IntentObjects ==
    {Intent("market_info", << >>, 90),
     Intent("portfolio_analysis", << >>, 80),
     Intent("risk_assessment", << >>, 90),
     Intent("risk_assessment", <<"asia", "Technology">>, 90),
     Intent("risk_assessment", <<"Europe", "Energy">>, 70),
     Intent("risk_assessment", <<NotAString>>, 70),
     Intent("stock_specific", <<"AAPL", "TSM", "XOM">>, 95),
     Intent("stock_specific", << >>, 60),
     Intent("economic_data", << >>, 85),
     Intent("unknown", << >>, 20),
     Intent("greeting", <<"Asia">>, 150),
     [entities |-> << >>, timeframe |-> "week", confidence |-> 50]}

LLMReplies ==
    {[kind |-> "json", object |-> o] : o \in IntentObjects}
        \cup {[kind |-> k, object |-> EmptyMap] : k \in {"call error", "unparsable"}}

Retrievals == {"raise", "some"}

Narrations ==
    {[raised |-> FALSE, content |-> "Markets were mixed today."],
     [raised |-> TRUE, content |-> ""]}

Ingestions == {"ok", "api raises", "scraping raises"}

NoQuery ==
    [n |-> 0, request |-> [has_query |-> FALSE, query |-> << >>],
     reply |-> [kind |-> "call error", object |-> EmptyMap], retrieval |-> "none",
     narration |-> [raised |-> TRUE, content |-> ""],
     response |-> [status_code |-> 0, content |-> EmptyMap],
     classified |-> FALSE, intent |-> EmptyMap, routed |-> "not called",
     fetches |-> 0, calls |-> << >>,
     context |-> << >>, cache_before |-> EmptyMap, cache_expiry_before |-> EmptyMap]

\* the startup event: the first ingestion, awaited before requests are served
Startup ==
    /\ server = "starting"
    /\ server' = "serving"
    /\ \E ingestion \in Ingestions :
          last_data_ingestion' = ingest_data_periodically(last_data_ingestion, now, ingestion)
    /\ UNCHANGED <<envVars, agent, cacheVars, obsVars, concVars, lastRisk, lastEval, ingest, tasks, lastQuery>>

\* POST /process
ProcessQuery ==
    /\ server = "serving"
    /\ lastQuery.n < MaxRequests
    /\ \E request \in Requests, reply \in LLMReplies, retrieval \in Retrievals,
          narration \in Narrations :
          \E p \in {process_query(agent, Store, request, reply, retrieval, narration,
                                  provider, now)} :
              /\ cache' = p.cache
              /\ cache_expiry' = p.cache_expiry
              /\ tasks' = tasks + p.scheduled
              /\ lastQuery' =
                    [n |-> lastQuery.n + 1, request |-> request, reply |-> reply,
                     retrieval |-> retrieval, narration |-> narration,
                     response |-> p.response, classified |-> p.classified,
                     intent |-> p.intent, routed |-> p.routed,
                     fetches |-> p.fetches, calls |-> p.calls,
                     context |-> p.context, cache_before |-> cache,
                     cache_expiry_before |-> cache_expiry]
    /\ UNCHANGED <<envVars, agent, obsVars, concVars, lastRisk, lastEval, ingest, server, last_data_ingestion>>

\* a scheduled background task runs ingest_data_periodically
RunTask ==
    /\ tasks > 0
    /\ tasks' = tasks - 1
    /\ \E ingestion \in Ingestions :
          last_data_ingestion' = ingest_data_periodically(last_data_ingestion, now, ingestion)
    /\ UNCHANGED <<envVars, agent, cacheVars, obsVars, concVars, lastRisk, lastEval, ingest, server, lastQuery>>

(***************************************************************************)
(* The event loop of the server.  startup_event, process_query and         *)
(* ingest_data_periodically are coroutines of one loop; the ingestion      *)
(* holds no await, so the loop runs nothing else from the moment it reads  *)
(* current_time until it returns, while the clock goes on and clients go   *)
(* on sending requests.                                                    *)
(***************************************************************************)
\* the hours pass
TickIngest ==
    /\ now + IngestClockStep <= MaxIngestTime
    /\ now' = now + IngestClockStep
    /\ UNCHANGED <<provider, agent, cacheVars, obsVars, concVars, lastRisk, lastEval, ingest, appVars>>

\* ingest_data_periodically up to its guard: a run begins, or the trigger
\* is skipped
BeginIngestion ==
    IF IngestionDue(last_data_ingestion, now)
    THEN [ingest EXCEPT !.running = TRUE, !.current_time = now]
    ELSE [ingest EXCEPT !.skipped = @ + 1]

\* the startup event awaits the first ingestion
StartupEvent ==
    /\ server = "starting"
    /\ ~ingest.running
    /\ ingest' = BeginIngestion
    /\ server' = IF IngestionDue(last_data_ingestion, now) THEN "starting" ELSE "serving"
    /\ UNCHANGED <<envVars, agent, cacheVars, obsVars, concVars, lastRisk, lastEval, tasks,
                   last_data_ingestion, lastQuery>>

\* the two add_from_ calls return or raise: the run ends, and the
\* application is up when it was the run of the startup event
FinishIngestion ==
    /\ ingest.running
    /\ \E ingestion \in Ingestions :
          /\ last_data_ingestion' =
                ingest_data_periodically(last_data_ingestion, ingest.current_time, ingestion)
          /\ ingest' = [ingest EXCEPT !.running = FALSE,
                                      !.log = Append(@, [at |-> ingest.current_time,
                                                         ingestion |-> ingestion])]
    /\ server' = "serving"
    /\ UNCHANGED <<envVars, agent, cacheVars, obsVars, concVars, lastRisk, lastEval, tasks, lastQuery>>

\* a client sends POST /process
Arrive ==
    /\ ingest.arrived < MaxArrivals
    /\ ingest' = [ingest EXCEPT !.arrived = @ + 1, !.waiting = @ + 1]
    /\ UNCHANGED <<envVars, agent, cacheVars, obsVars, concVars, lastRisk, lastEval, appVars>>

\* the replies of the chat completion while the ingestion is followed
IngestReplies ==
    {[kind |-> "json", object |-> Intent("market_info", << >>, 90)],
     [kind |-> "call error", object |-> EmptyMap]}

\* the loop is free and runs process_query on a waiting request
Serve ==
    /\ server = "serving"
    /\ ~ingest.running
    /\ ingest.waiting > 0
    /\ \E request \in Requests, reply \in IngestReplies, retrieval \in Retrievals,
          narration \in Narrations :
          \E p \in {process_query(agent, Store, request, reply, retrieval, narration,
                                  provider, now)} :
              /\ cache' = p.cache
              /\ cache_expiry' = p.cache_expiry
              /\ tasks' = tasks + p.scheduled
    /\ ingest' = [ingest EXCEPT !.waiting = @ - 1]
    /\ UNCHANGED <<envVars, agent, obsVars, concVars, lastRisk, lastEval, server,
                   last_data_ingestion, lastQuery>>

\* the loop is free and runs a scheduled background task
BackgroundTask ==
    /\ tasks > 0
    /\ ~ingest.running
    /\ tasks' = tasks - 1
    /\ ingest' = BeginIngestion
    /\ UNCHANGED <<envVars, agent, cacheVars, obsVars, concVars, lastRisk, lastEval, server,
                   last_data_ingestion, lastQuery>>

(***************************************************************************)
(* Direct calls of the functions that keep no state.                       *)
(***************************************************************************)
\* the words of the queries given to the keyword classifier
KeywordWords ==
    {"risk", "exposure", "Market", "markets", "stock", "price", "Asia", "today", "AAPL"}

\* the queries of at most MaxWords words
KeywordQueries == UNION {[1..n -> KeywordWords] : n \in 0..MaxWords}

\* one call of LanguageService.analyze_query_intent
KeywordIntent ==
    /\ lastEval = NoEval
    /\ \E query \in KeywordQueries :
          lastEval' = [op |-> "keyword_query_intent", query |-> query,
                       result |-> keyword_query_intent(query)]
    /\ UNCHANGED <<envVars, agent, cacheVars, obsVars, concVars, lastRisk, ingest, appVars>>

\* the price series given to the analytics functions: empty, one sample,
\* constant, rising and falling
PriceSeries == UNION {[1..n -> {99, 100, 110}] : n \in 0..MaxSamples}
MarketSeries == {<< >>, <<100>>, <<100, 100, 100>>, <<100, 110, 99>>, <<100, 101, 101>>}

\* one call of each of the five analytics functions on the same series
Analytics ==
    /\ lastEval = NoEval
    /\ \E prices \in PriceSeries, market_prices \in MarketSeries,
           index \in {"DatetimeIndex", "RangeIndex"} :
          lastEval' = [op |-> "analytics", prices |-> prices,
                       market_prices |-> market_prices, index |-> index,
                       volatility |-> calculate_volatility(prices),
                       beta |-> calculate_beta(prices, market_prices),
                       sharpe_ratio |-> calculate_sharpe_ratio(Returns(prices)),
                       drawdown |-> calculate_drawdown(prices, index),
                       value_at_risk |-> calculate_var(Returns(prices))]
    /\ UNCHANGED <<envVars, agent, cacheVars, obsVars, concVars, lastRisk, ingest, appVars>>

\* the classification of one average volatility, as analyze_risk_exposure
\* makes it for its report
ClassifyRisk ==
    /\ lastEval = NoEval
    /\ \E avg_volatility \in {Num(v) : v \in 0..MaxVolatility} \cup {NaN} :
          lastEval' = [op |-> "risk_level", avg_volatility |-> avg_volatility,
                       risk_level |-> RiskLevel(avg_volatility)]
    /\ UNCHANGED <<envVars, agent, cacheVars, obsVars, concVars, lastRisk, ingest, appVars>>

\* the label of one average price change, total / count percent, as
\* get_asia_tech_exposure makes it for its report
LabelSentiment ==
    /\ lastEval = NoEval
    /\ \E total \in (-MaxChange)..MaxChange, count \in 1..MaxTickers :
          lastEval' = [op |-> "sentiment", total |-> total, count |-> count,
                       sentiment |-> SentimentOf(total, count)]
    /\ UNCHANGED <<envVars, agent, cacheVars, obsVars, concVars, lastRisk, ingest, appVars>>

\* the entity lists and contexts given to _handle_stock_specific
StockEntities ==
    {<< >>, <<"AAPL">>, <<"BABA", "AAPL">>, <<"MEITF", "TSM">>, <<"TSM", "TSM">>,
     <<"AAPL", "BABA", "MEITF", "TSM">>}

StockContexts == {<< >>, <<"document", "document">>}

\* one call of _handle_stock_specific on the router's agents
StockSpecific ==
    /\ lastEval.op = "none" \/ lastEval.op = "handle_stock_specific"
    /\ lastEval.op = "handle_stock_specific" => lastEval.n < MaxStockCalls
    /\ \E query \in Queries, entities \in StockEntities, context \in StockContexts,
          narration \in Narrations :
          \E r \in {handle_stock_specific(agent, Store, query, entities, context, narration,
                                         provider, now)} :
              /\ cache' = r.cache
              /\ cache_expiry' = r.cache_expiry
              /\ lastEval' = [op |-> "handle_stock_specific",
                              n |-> IF lastEval.op = "none" THEN 1 ELSE lastEval.n + 1,
                              query |-> query, entities |-> entities, context |-> context,
                              narration |-> narration, mode |-> provider, at |-> now,
                              cache_before |-> cache, cache_expiry_before |-> cache_expiry,
                              result |-> r]
    /\ UNCHANGED <<envVars, agent, obsVars, concVars, lastRisk, ingest, appVars>>

\* the portfolios and the weight lists given to analyze_portfolio
PortfolioTickers ==
    {<< >>, <<"TSM">>, <<"9988.HK">>, <<"0700.HK">>, <<"TSM", "9988.HK">>,
     <<"TSM", "0700.HK">>, <<"9988.HK", "0700.HK">>, <<"TSM", "9988.HK", "AAPL">>}
PortfolioWeights ==
    {NoWeights} \cup
    {Weights(list) : list \in {<< >>, <<3>>, <<1, 1>>, <<2, 6>>, <<0, 0>>, <<1, -1>>,
                                <<50, 30, 20>>, <<5, 3, 2>>}}

\* one call of analyze_portfolio on the agent
AnalyzePortfolio ==
    /\ lastEval = NoEval
    /\ \E portfolio_tickers \in PortfolioTickers, weights \in PortfolioWeights :
          \E r \in {analyze_portfolio(agent, Store, portfolio_tickers, weights, provider, now)} :
              /\ cache' = r.cache
              /\ cache_expiry' = r.cache_expiry
              /\ lastEval' = [op |-> "analyze_portfolio",
                              portfolio_tickers |-> portfolio_tickers, weights |-> weights,
                              fetches |-> r.fetches, attempts |-> r.attempts,
                              value |-> r.value]
    /\ UNCHANGED <<envVars, agent, obsVars, concVars, lastRisk, ingest, appVars>>

InitStore ==
    /\ now = StartTime
    /\ provider = "up"
    /\ cache = EmptyMap
    /\ cache_expiry = EmptyMap
    /\ last_fetch = EmptyMap
    /\ lastCall = NoCall
    /\ InitThreads
    /\ lastRisk = NoRiskCall
    /\ lastEval = NoEval
    /\ ingest = NoIngestion
    /\ server = "starting"
    /\ tasks = 0
    /\ last_data_ingestion = 0
    /\ lastQuery = NoQuery

\* the assistant: an APIAgent behind the router and the process endpoint,
\* serving requests that arrive within one lifetime of a cache entry
Init == InitStore /\ agent = "APIAgent"

Next == ProviderChange \/ Startup \/ ProcessQuery \/ RunTask

Spec == Init /\ [][Next]_vars

\* a quote cache of either class, called directly
InitCache == InitStore /\ agent \in Agents

NextCache == Tick \/ ProviderChange \/ GetStockData

SpecCache == InitCache /\ [][NextCache]_vars

\* a quote cache of either class with concurrent callers on one key
NextConc ==
    \/ Tick
    \/ ProviderChange
    \/ \E t \in Threads :
          Call(t) \/ Check(t) \/ ReturnCached(t) \/ Fetch(t) \/ StoreSeries(t) \/ StoreExpiry(t)

SpecConc == InitCache /\ [][NextConc]_vars

\* the aggregator called directly on an APIAgent
InitRisk == InitStore /\ agent = "APIAgent"

NextRisk == Tick \/ ProviderChange \/ AnalyzeRiskExposure

SpecRisk == InitRisk /\ [][NextRisk]_vars

\* the portfolio analysis called directly on an agent of either class
NextPortfolio == Tick \/ ProviderChange \/ AnalyzePortfolio

SpecPortfolio == InitCache /\ [][NextPortfolio]_vars

\* the server over some hours, ingestion runs taking time
NextIngest ==
    TickIngest \/ StartupEvent \/ FinishIngestion \/ Arrive \/ Serve \/ BackgroundTask

SpecIngest == Init /\ [][NextIngest]_vars

\* the loop runs what it can run; clients need not send anything
SpecIngestFair ==
    /\ SpecIngest
    /\ WF_vars(TickIngest)
    /\ WF_vars(StartupEvent)
    /\ WF_vars(FinishIngestion)
    /\ WF_vars(Serve)
    /\ WF_vars(BackgroundTask)

\* the stock_specific branch called directly on the router's APIAgent
NextStocks == Tick \/ ProviderChange \/ StockSpecific

SpecStocks == Init /\ [][NextStocks]_vars

\* direct calls of the functions without state
NextEval == KeywordIntent \/ Analytics \/ ClassifyRisk \/ LabelSentiment

SpecEval == Init /\ [][NextEval]_vars

(***************************************************************************)
(* Quote cache: properties.                                                *)
(***************************************************************************)
\* the latest call found a stored entry that had not expired
CallFoundLiveEntry == lastCall.had_entry /\ lastCall.at < lastCall.old_expiry

\* C4: a call for a key made less than cache_duration after upstream last
\* returned a series for that key issues no upstream fetch (one fetch in
\* total for the two calls); a call made once cache_duration has elapsed
\* since then issues exactly one fetch.
C4_OneFetchPerDuration ==
    (lastCall.outcome # "none" /\ lastCall.prior_fetch >= 0) =>
        IF lastCall.at - lastCall.prior_fetch < cache_duration
        THEN lastCall.fetches = 0
        ELSE lastCall.fetches = 1

\* a second call, later than the first but within cache_duration, was a hit
C4_Witness ==
    /\ lastCall.prior_fetch >= 0
    /\ lastCall.at > lastCall.prior_fetch
    /\ lastCall.at - lastCall.prior_fetch < cache_duration
    /\ lastCall.fetches = 0

\* C5: get_stock_data returns the stored series without an upstream call
\* exactly when an entry exists and now < expiry; otherwise it fetches, and
\* what it returns is the provider's reply, or, when the provider fails, an
\* error or an empty frame, never the expired series.
C5_StaleNeverServed ==
    lastCall.outcome # "none" =>
        /\ (lastCall.fetches = 0 /\ lastCall.outcome = "returned") <=> CallFoundLiveEntry
        /\ CallFoundLiveEntry => lastCall.result = lastCall.old_data
        /\ ~CallFoundLiveEntry =>
              /\ lastCall.fetches = 1
              /\ IF lastCall.replied.raised
                 THEN lastCall.outcome = "raised" \/ lastCall.result = EmptyFrame
                 ELSE lastCall.outcome = "returned" /\ lastCall.result = lastCall.replied.data

\* an expired entry with rows was stored when the refreshing fetch failed
C5_Witness ==
    /\ lastCall.had_entry
    /\ lastCall.at >= lastCall.old_expiry
    /\ lastCall.old_data # EmptyFrame
    /\ lastCall.replied.raised

\* C6: a failure of the upstream provider during get_stock_data is turned
\* into an empty series and is not raised to the caller.
C6_ProviderFailureContained ==
    (lastCall.fetches = 1 /\ lastCall.replied.raised) =>
        (lastCall.outcome = "returned" /\ lastCall.result = EmptyFrame)

\* C7: an empty series returned by the provider is stored with
\* expiry = now + cache_duration, and a call for the key before that expiry
\* returns the empty series with no upstream call.
C7_EmptyResultCached ==
    /\ (lastCall.fetches = 1 /\ ~lastCall.replied.raised
            /\ lastCall.replied.data = EmptyFrame) =>
          /\ lastCall.key \in DOMAIN cache
          /\ cache[lastCall.key] = EmptyFrame
          /\ ExpiryOf(cache_expiry, lastCall.key) = lastCall.at + cache_duration
    /\ (CallFoundLiveEntry /\ lastCall.old_data = EmptyFrame) =>
          /\ lastCall.fetches = 0
          /\ lastCall.outcome = "returned"
          /\ lastCall.result = EmptyFrame

\* a stored empty series was served while the provider had rows for the key
C7_Witness ==
    /\ CallFoundLiveEntry
    /\ lastCall.old_data = EmptyFrame
    /\ lastCall.at > 0
    /\ ~lastCall.replied.raised
    /\ lastCall.replied.data # EmptyFrame

\* no caller is inside get_stock_data
AllCallsFinished == \A t \in Threads : threads[t].pc \in {"idle", "done"}

\* C8: under any interleaving of concurrent calls on one key, the stored
\* series and the stored expiry left after all calls finish were written by
\* the same fill, and so were the expiry and the series a hit is based on.
C8_PairFromOneFill ==
    /\ AllCallsFinished => series_fill = expiry_fill
    /\ \A t \in Threads :
          (threads[t].pc = "done" /\ threads[t].hit) =>
              threads[t].saw_series = threads[t].saw_expiry

\* the last analyze_risk_exposure call named a region outside the taxonomy, or
\* a non-empty sector that is not one of the four sectors of its region
RiskCallRefusable ==
    \/ lastRisk.region \notin {"Asia", "Europe", "North America"}
    \/ lastRisk.sector \notin {None, "", "Technology", "Finance", "Consumer", "Healthcare"}

\* the message such a call must report
RefusalMessage ==
    IF lastRisk.region \notin {"Asia", "Europe", "North America"}
    THEN "Region '" \o lastRisk.region \o "' not supported"
    ELSE "Sector '" \o lastRisk.sector \o "' not supported for region '"
             \o lastRisk.region \o "'"

\* C9: analyze_risk_exposure called with a region outside the taxonomy, or
\* with a non-empty sector that is not a sector of the region, returns
\* {error: message} (for region Asia and sector Unknown the message is
\* "Sector 'Unknown' not supported for region 'Asia'"), raises nothing, issues
\* no upstream call and leaves cache and cache_expiry as they were.
C9_UnknownRegionOrSectorRefused ==
    [][(lastRisk'.n # lastRisk.n /\ RiskCallRefusable')
        => /\ lastRisk'.value = [error |-> RefusalMessage']
           /\ (lastRisk'.region = "Asia" /\ lastRisk'.sector = "Unknown"
                  => lastRisk'.value =
                       [error |-> "Sector 'Unknown' not supported for region 'Asia'"])
           /\ lastRisk'.fetches = 0
           /\ cache' = cache
           /\ cache_expiry' = cache_expiry]_vars

\* a second call, for Asia and the sector Unknown, was refused while the
\* cache held the entries of an earlier analysis
C9_Witness ==
    /\ lastRisk.n = 2
    /\ lastRisk.region = "Asia"
    /\ lastRisk.sector = "Unknown"
    /\ lastRisk.value = [error |-> "Sector 'Unknown' not supported for region 'Asia'"]
    /\ lastRisk.fetches = 0
    /\ cache # EmptyMap

\* the intents route_query has a data-gathering branch for
HandledIntents ==
    {"market_info", "portfolio_analysis", "risk_assessment", "stock_specific",
     "economic_data"}

\* the primary_intent route_query saw in the last request
RoutedIntent == Get(lastQuery.intent, "primary_intent", "unknown")

\* the last response is an answer {text, data} with a non-empty text
AnsweredWithText ==
    /\ lastQuery.response.status_code = 200
    /\ DOMAIN lastQuery.response.content = {"text", "data"}
    /\ lastQuery.response.content.text # ""

\* C1: for every query and intent, when a step of the selected branch raises
\* (here: the context retrieval), route_query still returns to its caller, a
\* narration-only response with data = {}; it never propagates an exception.
C1_RouterNeverPropagates ==
    lastQuery.classified
        => /\ lastQuery.routed = "returned"
           /\ lastQuery.retrieval = "raise"
                 => /\ AnsweredWithText
                    /\ lastQuery.response.content.data = EmptyMap

\* C2: for every primary_intent, route_query returns a response with a
\* non-empty text and a data field; for unknown, for a value outside the five
\* handled intents and for a missing primary_intent, data is the empty map and
\* no data-provider or analytics call is made.
C2_EveryIntentAnswered ==
    lastQuery.classified
        => /\ lastQuery.routed = "returned"
           /\ AnsweredWithText
           /\ RoutedIntent \notin HandledIntents
                 => /\ lastQuery.response.content.data = EmptyMap
                    /\ lastQuery.fetches = 0
                    /\ \A i \in 1..Len(lastQuery.calls) :
                          lastQuery.calls[i] \in
                             {"analyze_query_intent", "retrieve", "generate_response"}

\* C3: every request with a non-empty query gets a best-effort answer
\* {text, data}, never a hard error response, whatever fails in the
\* classifier, the router or a collaborator.
C3_NeverHardError ==
    (lastQuery.n > 0 /\ QueryOf(lastQuery.request) # << >>) => AnsweredWithText

\* the classifier's collaborator failed in the last request
ClassifierFellBack == lastQuery.classified /\ lastQuery.reply.kind # "json"

\* C10 as stated: on a failure of the language-understanding collaborator
\* the classifier returns exactly {primary_intent: unknown, confidence: 0.0,
\* entities: [], timeframe: current, requires_numeric_data: true}.
C10_FallbackIntentExactly ==
    ClassifierFellBack
        => lastQuery.intent =
              [primary_intent |-> "unknown", confidence |-> 0, entities |-> << >>,
               timeframe |-> "current", requires_numeric_data |-> TRUE]

\* C10, amended: on a failure of the language-understanding collaborator
\* (call error or unparsable reply) the classifier does not raise and returns
\* the intent with primary_intent unknown, confidence 0.0, entities [],
\* timeframe current, requires_numeric_data true and a sixth field, error,
\* holding the text of the failure; the request goes on to the router.
C10_FallbackIntentWithError ==
    ClassifierFellBack
        => /\ DOMAIN lastQuery.intent =
                 {"primary_intent", "confidence", "entities", "timeframe",
                  "requires_numeric_data", "error"}
           /\ lastQuery.intent.primary_intent = "unknown"
           /\ lastQuery.intent.confidence = 0
           /\ lastQuery.intent.entities = << >>
           /\ lastQuery.intent.timeframe = "current"
           /\ lastQuery.intent.requires_numeric_data = TRUE
           /\ lastQuery.intent.error = ErrorText(lastQuery.reply.kind)
           /\ lastQuery.intent.error # ""
           /\ lastQuery.routed # "not called"

\* the reply of the collaborator could not be parsed, the classifier fell
\* back and the request was answered through the default branch
C10_Witness ==
    /\ lastQuery.classified
    /\ lastQuery.reply.kind = "unparsable"
    /\ lastQuery.intent.primary_intent = "unknown"
    /\ "error" \in DOMAIN lastQuery.intent
    /\ lastQuery.routed = "returned"
    /\ lastQuery.calls = <<"analyze_query_intent", "retrieve", "generate_response">>

(***************************************************************************)
(* Keyword classifier: properties.                                         *)
(***************************************************************************)
\* the intents that have keywords
KeywordIntents ==
    {IntentOfKeyword(IntentKeywords[i]) : i \in 1..Len(IntentKeywords)}

\* the score of an intent: the occurrences in the query of all its keywords
IntentScore(query, intent) ==
    SumSeq([i \in 1..Len(IntentKeywords) |->
               IF IntentOfKeyword(IntentKeywords[i]) = intent
               THEN CountIn(query, IntentKeywords[i]) ELSE 0])

\* the position of the keyword of an intent that was registered first
FirstKeywordOf(intent) ==
    CHOOSE i \in 1..Len(IntentKeywords) :
        /\ IntentOfKeyword(IntentKeywords[i]) = intent
        /\ \A j \in 1..(i - 1) : IntentOfKeyword(IntentKeywords[j]) # intent

\* the reference result: the intent of the highest non-zero score, a tie
\* going to the intent whose keyword was registered earliest
ReferenceIntent(query) ==
    IF \A intent \in KeywordIntents : IntentScore(query, intent) = 0 THEN "unknown"
    ELSE CHOOSE best \in KeywordIntents :
            \A other \in KeywordIntents \ {best} :
                \/ IntentScore(query, best) > IntentScore(query, other)
                \/ /\ IntentScore(query, best) = IntentScore(query, other)
                   /\ FirstKeywordOf(best) < FirstKeywordOf(other)

\* C11: for every query the keyword classifier's primary_intent is the
\* reference result: intents scored by the occurrences of their keywords in
\* the lower-cased query, highest non-zero score wins, ties to the intent
\* whose keyword was registered earliest, unknown when no keyword occurs.
C11_KeywordIntentIsReference ==
    lastEval.op = "keyword_query_intent"
        => lastEval.result.primary_intent = ReferenceIntent(lastEval.query)

(***************************************************************************)
(* The Intent handed to the router: properties.                            *)
(***************************************************************************)
\* the fields of an intent are within their ranges (confidence in hundredths)
IntentInRange(intent) ==
    /\ {"primary_intent", "timeframe", "confidence"} \subseteq DOMAIN intent
    /\ intent.primary_intent \in HandledIntents \cup {"unknown"}
    /\ intent.timeframe \in {"today", "week", "month", "year", "current"}
    /\ intent.confidence \in 0..100

\* C12: every Intent that the classifier hands to the router, for every
\* query and every reply of the collaborator, has primary_intent among the
\* five handled intents and unknown, timeframe in {today, week, month, year,
\* current} and confidence in [0, 1].
C12_IntentInRange ==
    lastQuery.classified => IntentInRange(lastQuery.intent)

(***************************************************************************)
(* analyze_portfolio: properties.                                          *)
(***************************************************************************)
\* the last call was analyze_portfolio and it returned a PortfolioMetrics
PortfolioReturned ==
    lastEval.op = "analyze_portfolio" /\ "error" \notin DOMAIN lastEval.value

\* the body of the loop raised for one ticker and stored metrics for another
OneFailedOneSucceeded ==
    /\ lastEval.op = "analyze_portfolio"
    /\ \E i \in 1..Len(lastEval.attempts) :
          lastEval.attempts[i].outcome # "metrics stored"
    /\ \E i \in 1..Len(lastEval.attempts) :
          lastEval.attempts[i].outcome = "metrics stored"

\* the fields of a full metrics bundle
BundleFields ==
    {"volatility", "beta", "sharpe_ratio", "max_drawdown", "drawdown_duration", "var_95"}

\* C13: when the fetch or the metric computation of one ticker fails while
\* at least one other ticker succeeds, analyze_portfolio still returns a
\* PortfolioMetrics whose individual_metrics has an entry for every requested
\* ticker: {error: message} for each failing ticker, a full metrics bundle
\* for each other ticker.
C13_TickerFailureIsolated ==
    OneFailedOneSucceeded
        => /\ PortfolioReturned
           /\ DOMAIN lastEval.value.individual_metrics =
                 {lastEval.portfolio_tickers[i] : i \in 1..Len(lastEval.portfolio_tickers)}
           /\ \A i \in 1..Len(lastEval.attempts) :
                 LET entry == lastEval.value.individual_metrics[lastEval.attempts[i].ticker]
                 IN  IF lastEval.attempts[i].outcome = "metrics stored"
                     THEN DOMAIN entry = BundleFields
                     ELSE DOMAIN entry = {"error"} /\ entry.error # ""

\* a portfolio of three tickers with one the provider rejects: the call
\* returned the metrics of the other two and the error of the third
C13_Witness ==
    /\ OneFailedOneSucceeded
    /\ PortfolioReturned
    /\ lastEval.portfolio_tickers = <<"TSM", "9988.HK", "AAPL">>
    /\ "error" \in DOMAIN lastEval.value.individual_metrics["9988.HK"]
    /\ DOMAIN lastEval.value.individual_metrics["TSM"] = BundleFields

\* C14: for every non-empty list of input weights, whatever its scale,
\* analyze_portfolio returns a result whose weights sum to 1.0.
C14_WeightsSumToOne ==
    (/\ lastEval.op = "analyze_portfolio"
     /\ lastEval.weights.given
     /\ lastEval.weights.list # << >>)
        => /\ PortfolioReturned
           /\ SumSeq([i \in 1..Len(lastEval.value.weights) |-> lastEval.value.weights[i].num])
                 = lastEval.value.weights[1].den

\* C15: every PortfolioMetrics returned by analyze_portfolio has as many
\* weights as tickers, for every combination of ticker list and supplied
\* weight list.
C15_OneWeightPerTicker ==
    PortfolioReturned => Len(lastEval.value.tickers) = Len(lastEval.value.weights)

(***************************************************************************)
(* The analytics functions: properties.                                    *)
(***************************************************************************)
\* a series of fewer than two samples, or of one repeated price
ShortOrConstant(prices) ==
    Len(prices) < 2 \/ \A i \in 1..Len(prices) : prices[i] = prices[1]

\* C16: none of the five analytics functions raises for any input series,
\* and on a degenerate series (empty, one sample, constant) each returns its
\* documented default: volatility 0.0, beta 1.0 (degenerate benchmark),
\* sharpe_ratio 0.0, drawdown {max_drawdown: 0.0, duration: 0},
\* value_at_risk 0.0.
C16_AnalyticsDefaults ==
    lastEval.op = "analytics"
        => /\ ShortOrConstant(lastEval.prices)
                 => /\ lastEval.volatility = Num(0)
                    /\ lastEval.sharpe_ratio = Num(0)
                    /\ lastEval.drawdown = DrawdownDefault
                    /\ lastEval.value_at_risk = Num(0)
           /\ (ShortOrConstant(lastEval.prices) /\ ShortOrConstant(lastEval.market_prices))
                 => lastEval.beta = Num(100)

(***************************************************************************)
(* Risk level and sentiment: properties.                                   *)
(***************************************************************************)
\* C17: the risk level of an average volatility v is Very High if v > 30,
\* else High if v > 20, else Moderate to High if v > 15, else Moderate if
\* v > 10, else Low; the comparisons are strict, so 30, 20, 15 and 10 fall
\* into the lower class, and 35, 25, 17, 12, 5 give the five levels.
C17_RiskLevelThresholds ==
    (lastEval.op = "risk_level" /\ ~lastEval.avg_volatility.nan)
        => LET v == lastEval.avg_volatility.v
               level == lastEval.risk_level
           IN  /\ level = "Very High" <=> v > 3000
               /\ level = "High" <=> (v > 2000 /\ v <= 3000)
               /\ level = "Moderate to High" <=> (v > 1500 /\ v <= 2000)
               /\ level = "Moderate" <=> (v > 1000 /\ v <= 1500)
               /\ level = "Low" <=> v <= 1000
               /\ v = 3500 => level = "Very High"
               /\ v = 2500 => level = "High"
               /\ v = 1700 => level = "Moderate to High"
               /\ v = 1200 => level = "Moderate"
               /\ v = 500 => level = "Low"

\* an average volatility of exactly 30 was classified High
C17_Witness ==
    /\ lastEval.op = "risk_level"
    /\ lastEval.avg_volatility = Num(3000)
    /\ lastEval.risk_level = "High"

\* C18: the sentiment label of an average price change c = total / count
\* is bullish if c > 2, slightly bullish if c > 0.5, neutral if c > -0.5,
\* slightly bearish if c > -2, else bearish; 3.0, 1.0, 0.0, -1.0 and -3.0
\* give the five labels.
C18_SentimentThresholds ==
    lastEval.op = "sentiment"
        => LET total == lastEval.total
               count == lastEval.count
               label == lastEval.sentiment
           IN  /\ label = "bullish" <=> total > 2 * count
               /\ label = "slightly bullish" <=> (2 * total > count /\ total <= 2 * count)
               /\ label = "neutral" <=> (2 * total > -count /\ 2 * total <= count)
               /\ label = "slightly bearish" <=> (total > -2 * count /\ 2 * total <= -count)
               /\ label = "bearish" <=> total <= -2 * count
               /\ total = 3 * count => label = "bullish"
               /\ total = count => label = "slightly bullish"
               /\ total = 0 => label = "neutral"
               /\ total = -count => label = "slightly bearish"
               /\ total = -3 * count => label = "bearish"

\* an average change of exactly 0.5 percent was labelled neutral
C18_Witness ==
    /\ lastEval.op = "sentiment"
    /\ lastEval.total = 1
    /\ lastEval.count = 2
    /\ lastEval.sentiment = "neutral"

(***************************************************************************)
(* Ingestion: properties.                                                  *)
(***************************************************************************)
\* the runs made after run i of the log and within one interval of it
RedundantRuns(i) ==
    {j \in DOMAIN ingest.log :
        j > i /\ ingest.log[j].at - ingest.log[i].at <= DATA_INGESTION_INTERVAL}

\* C19: within one DATA_INGESTION_INTERVAL after a successful ingestion run
\* at most one more ingestion run is made, whatever the triggers (the startup
\* event, one background task per processed query) and their order.
C19_AtMostOneRedundantRun ==
    \A i \in DOMAIN ingest.log :
        ingest.log[i].ingestion = "ok" => Cardinality(RedundantRuns(i)) <= 1

\* a run succeeded and two later triggers inside its interval were skipped
C19_Witness ==
    /\ Len(ingest.log) = 1
    /\ ingest.log[1].ingestion = "ok"
    /\ ingest.skipped >= 2
    /\ now - ingest.log[1].at <= DATA_INGESTION_INTERVAL

\* the interval has elapsed on a server that is up and not ingesting
IntervalElapsed ==
    /\ server = "serving"
    /\ ~ingest.running
    /\ IngestionDue(last_data_ingestion, now)

\* a request waits while an ingestion run holds the loop
RequestWaitsForIngestion == ingest.running /\ ingest.waiting > 0

\* C20: the re-ingestion is a task of its own: once the interval has elapsed
\* a run eventually begins even if no query arrives, and no request ever
\* waits for an ingestion run in progress, the run at startup included.
C20_IngestionIndependent ==
    /\ IntervalElapsed ~> ingest.running
    /\ [](~RequestWaitsForIngestion)

(***************************************************************************)
(* AgentRouter: properties of the calls it makes.                          *)
(***************************************************************************)
\* the context item a data-gathering call is appended as
ItemOf(call) ==
    CASE call = "get_market_indices" -> "market_indices"
      [] call = "get_sector_performance" -> "sector_performance"
      [] call = "get_portfolio_data" -> "portfolio_data"
      [] call = "analyze_risk_exposure" -> "risk_exposure"
      [] call = "get_asia_tech_exposure" -> "asia_tech_exposure"
      [] call = "get_economic_indicators" -> "economic_indicators"
      [] call = "get_stock_data" -> "stock_data"
      [] call = "get_stock_news" -> "stock_news"
      [] OTHER -> "no item"

\* the calls of the ticker loop, which give an item only when they gave data
PerTickerCalls == {"get_stock_data", "get_stock_news"}

\* items are the items of the calls, in the order of the calls, one for each
\* call outside the ticker loop and at most one for each call inside it
RECURSIVE ItemsFollowCalls(_, _)
ItemsFollowCalls(items, calls) ==
    IF calls = << >> THEN items = << >>
    ELSE \/ /\ items # << >>
            /\ Head(items) = ItemOf(Head(calls))
            /\ ItemsFollowCalls(Tail(items), Tail(calls))
         \/ /\ Head(calls) \in PerTickerCalls
            /\ ItemsFollowCalls(items, Tail(calls))

\* how many times x is in the sequence q
Occurrences(q, x) == Cardinality({i \in 1..Len(q) : q[i] = x})

\* the calls of route_query between retrieve and generate_response
GatheringCalls(calls) == SubSeq(calls, 3, Len(calls) - 1)

\* the calls of a request whose route_query returned are analyze_query_intent,
\* retrieve, the data-gathering calls, generate_response
CallsInOrder(q) ==
    /\ Len(q.calls) >= 3
    /\ q.calls[1] = "analyze_query_intent"
    /\ q.calls[2] = "retrieve"
    /\ q.calls[Len(q.calls)] = "generate_response"
    /\ Occurrences(q.calls, "retrieve") = 1
    /\ Occurrences(q.calls, "generate_response") = 1
    /\ \A i \in 1..Len(GatheringCalls(q.calls)) :
          ItemOf(GatheringCalls(q.calls)[i]) # "no item"

\* the context given to generate_response is the retrieved items, then the
\* items of the gathered data sets in gathering order
ContextInOrder(q) ==
    LET retrieved == retrieve(QueryOf(q.request), q.retrieval).items
        stocks == IF "stocks" \in DOMAIN q.response.content.data
                  THEN DOMAIN q.response.content.data.stocks ELSE {}
    IN  /\ Len(q.context) >= Len(retrieved)
        /\ SubSeq(q.context, 1, Len(retrieved)) = retrieved
        /\ ItemsFollowCalls(SubSeq(q.context, Len(retrieved) + 1, Len(q.context)),
                            GatheringCalls(q.calls))
        /\ Occurrences(q.context, "stock_data") >= Cardinality(stocks)

Canonical(entity) ==
    CASE Falsy(entity) -> entity
      [] Lower(entity) = "asia" -> "Asia"
      [] Lower(entity) = "europe" -> "Europe"
      [] Lower(entity) = "north america" -> "North America"
      [] Lower(entity) = "emerging markets" -> "Emerging Markets"
      [] Lower(entity) = "technology" -> "Technology"
      [] Lower(entity) = "finance" -> "Finance"
      [] Lower(entity) = "healthcare" -> "Healthcare"
      [] Lower(entity) = "consumer" -> "Consumer"
      [] Lower(entity) = "energy" -> "Energy"
      [] OTHER -> entity

\* the entities route_query saw in the last request
RoutedEntities(q) == Get(q.intent, "entities", << >>)

\* the request went through the whole of _handle_risk_assessment
RiskBranchReturned(q) ==
    /\ q.routed = "returned"
    /\ Get(q.intent, "primary_intent", "unknown") = "risk_assessment"

\* C22: in the risk_assessment branch an entity naming a region or a sector
\* of the vocabulary in any letter case gives the exposure analysis of the
\* canonically spelled region and sector.
C22_EntityCaseInsensitive ==
    [][(lastQuery'.n # lastQuery.n /\ RiskBranchReturned(lastQuery'))
        => lastQuery'.response.content.data =
              analyze_risk_exposure(agent, Store,
                  Canonical(RiskRegion(RoutedEntities(lastQuery'))),
                  Canonical(RiskSector(QueryOf(lastQuery'.request),
                                       RoutedEntities(lastQuery'))),
                  provider, now).value]_vars

\* the entities of the request that match the region vocabulary, and those
\* that match the sector vocabulary
RegionEntities(q) ==
    {RoutedEntities(q)[i] : i \in {j \in 1..Len(RoutedEntities(q)) :
                                      Lower(RoutedEntities(q)[j]) \in RegionVocabulary}}

SectorEntities(q) ==
    {RoutedEntities(q)[i] : i \in {j \in 1..Len(RoutedEntities(q)) :
                                      Lower(RoutedEntities(q)[j]) \in SectorVocabulary}}

\* the result d of analyze_risk_exposure shows it was called for this region
\* and sector: the report carries them, a refusal names them
CalledFor(d, region, sector) ==
    IF "error" \in DOMAIN d
    THEN d.error \in {RegionNotSupported(region), SectorNotSupported(region, sector),
                      "provider error"}
    ELSE d.region = region /\ d.sector = sector

ResolvedTickers == StockTickers(lastEval.query, lastEval.entities)

\* the series get_stock_data had for the ticker at the time of the last
\* call: the stored one while it is live, else what the provider gave
SeriesHadRows(ticker) ==
    LET key == CacheKey(ticker, "1d", "1h")
        reply == History(lastEval.mode, ticker, "1d", "1h", lastEval.at)
    IN  IF key \in DOMAIN lastEval.cache_before
           /\ lastEval.at < lastEval.cache_expiry_before[key]
        THEN lastEval.cache_before[key] # EmptyFrame
        ELSE ~reply.raised /\ reply.data # EmptyFrame

\* C24: in the stock_specific branch data.stocks has an entry for exactly
\* the resolved tickers whose series is non-empty; a ticker whose fetch
\* fails or gives no data is left out, with no error field, the tickers
\* after it are still processed, and the narrated response is returned.
C24_EmptyTickerSkipped ==
    lastEval.op = "handle_stock_specific"
        => /\ lastEval.result.outcome = "returned"
           /\ lastEval.result.text =
                 (IF lastEval.narration.raised THEN ApologyText
                  ELSE lastEval.narration.content)
           /\ DOMAIN lastEval.result.data = {"stocks"}
           /\ DOMAIN lastEval.result.data.stocks =
                 {ResolvedTickers[i] : i \in {j \in 1..Len(ResolvedTickers) :
                                                 SeriesHadRows(ResolvedTickers[j])}}
           /\ \A ticker \in DOMAIN lastEval.result.data.stocks :
                 DOMAIN lastEval.result.data.stocks[ticker] = {"price", "change_percent"}
           /\ Occurrences(lastEval.result.calls, "get_stock_data") = Len(ResolvedTickers)

\* the provider rejected BABA and had no rows for MEITF, and the call
\* returned the prices of AAPL before them and of TSM after them
C24_Witness ==
    /\ lastEval.op = "handle_stock_specific"
    /\ lastEval.entities = <<"AAPL", "BABA", "MEITF", "TSM">>
    /\ lastEval.mode = "partial"
    /\ lastEval.result.outcome = "returned"
    /\ DOMAIN lastEval.result.data.stocks = {"AAPL", "TSM"}

(***************************************************************************)
(* analyze_risk_exposure: properties of the report.                        *)
(***************************************************************************)
\* the last call was for a region of the taxonomy and no sector, and gave a
\* report
AllSectorsReported ==
    /\ lastRisk.n > 0
    /\ lastRisk.region \in DOMAIN region_mapping
    /\ Falsy(lastRisk.sector)
    /\ "error" \notin DOMAIN lastRisk.value

\* the tickers of all the sectors of a region
TickersOfRegion(region) ==
    UNION {{region_mapping[region][x][i] : i \in 1..Len(region_mapping[region][x])} :
              x \in DOMAIN region_mapping[region]}

\* the elements of a sequence, each at its first place only
FirstMentions(q) ==
    SelectSeq([i \in 1..Len(q) |-> [v |-> q[i], i |-> i]],
              LAMBDA p : \A j \in 1..(p.i - 1) : q[j] # p.v)

\* the metrics of the tickers of the report that have some, each ticker once
MetricsOnce(report) ==
    SelectSeq([i \in 1..Len(FirstMentions(report.tickers)) |->
                  FirstMentions(report.tickers)[i].v],
              LAMBDA ticker : ticker \in DOMAIN report.metrics)

\* C25: for a supported region and no sector the tickers of the report are
\* the union of the tickers of all the sectors of the region: every ticker
\* of every sector, no other, and a ticker of two sectors listed once and
\* counted once in average_metrics.
C25_AllSectorsUnion ==
    AllSectorsReported
        => /\ {lastRisk.value.tickers[i] : i \in 1..Len(lastRisk.value.tickers)} =
                 TickersOfRegion(lastRisk.region)
           /\ Len(lastRisk.value.tickers) = Cardinality(TickersOfRegion(lastRisk.region))
           /\ DOMAIN lastRisk.value.metrics \subseteq TickersOfRegion(lastRisk.region)
           /\ lastRisk.value.average_metrics.volatility =
                 MeanOrZero([i \in 1..Len(MetricsOnce(lastRisk.value)) |->
                     lastRisk.value.metrics[MetricsOnce(lastRisk.value)[i]].volatility])

(***************************************************************************)
(* Quote cache: what a failed fetch leaves.                                *)
(***************************************************************************)
\* the call recorded in c issued a fetch and the provider raised
FetchFailed(c) == c.fetches = 1 /\ c.replied.raised

\* C26: when the upstream fetch of get_stock_data fails, cache and
\* cache_expiry are left as they were for every key; an expired entry of the
\* requested key stays stored and is not served; the next call for the key
\* fetches upstream again.
C26_FailedFetchLeavesCache ==
    [][(now' = now /\ provider' = provider)
        => /\ FetchFailed(lastCall')
                => /\ cache' = cache
                   /\ cache_expiry' = cache_expiry
                   /\ lastCall'.had_entry
                         => /\ lastCall'.key \in DOMAIN cache'
                            /\ lastCall'.outcome = "raised"
                                  \/ lastCall'.result = EmptyFrame
           /\ (FetchFailed(lastCall) /\ lastCall'.key = lastCall.key)
                => lastCall'.fetches = 1]_vars

\* the refresh of an entry fetched two cache lifetimes ago failed: the entry
\* is still stored with its old expiry
C26_Witness ==
    /\ FetchFailed(lastCall)
    /\ lastCall.had_entry
    /\ lastCall.at >= lastCall.old_expiry
    /\ lastCall.old_data # EmptyFrame
    /\ cache[lastCall.key] = lastCall.old_data
    /\ cache_expiry[lastCall.key] = lastCall.old_expiry
    /\ lastCall.prior_fetch >= 0
    /\ lastCall.at - lastCall.prior_fetch >= 2 * cache_duration

\* this step is the end of an ingestion run
RunEnds == ingest.running /\ ~ingest'.running

\* the run that ended last
LastRun(i) == i.log[Len(i.log)]

\* C27: a run that fails part-way leaves last_data_ingestion as it was, so
\* the next trigger ingests again; last_data_ingestion changes only at the
\* end of a fully successful run, to the time at which that run started, and
\* never decreases.
C27_TimestampOnlyOnSuccess ==
    [][/\ (RunEnds /\ LastRun(ingest').ingestion # "ok")
            => last_data_ingestion' = last_data_ingestion
       /\ last_data_ingestion' # last_data_ingestion
            => /\ RunEnds
               /\ LastRun(ingest').ingestion = "ok"
               /\ last_data_ingestion' = ingest.current_time
               /\ last_data_ingestion' = LastRun(ingest').at
               /\ last_data_ingestion' > last_data_ingestion
       /\ (/\ tasks' = tasks - 1
           /\ ingest.log # << >>
           /\ LastRun(ingest).ingestion # "ok")
            => ingest'.running]_vars

\* the startup run failed, the run of a background task succeeded some time
\* after it began, and the timestamp is the time at which it began
C27_Witness ==
    /\ Len(ingest.log) = 2
    /\ ingest.log[1].ingestion # "ok"
    /\ ingest.log[2].ingestion = "ok"
    /\ ~ingest.running
    /\ last_data_ingestion = ingest.log[2].at
    /\ now > last_data_ingestion
    /\ ingest.skipped = 0

\* what a call of get_stock_data for the ticker gives on the stores c, e at
\* time t under the provider state mode: the stored series while it is
\* live, else the reply of the provider
Served(c, e, mode, t, ticker) ==
    IF CacheKey(ticker, "1mo", "1d") \in DOMAIN c /\ t < e[CacheKey(ticker, "1mo", "1d")]
    THEN [raised |-> FALSE, data |-> c[CacheKey(ticker, "1mo", "1d")]]
    ELSE History(mode, ticker, "1mo", "1d", t)

\* this step is a call of analyze_risk_exposure for a region and sector of
\* the taxonomy in which the benchmark is served and no ticker has rows
NoTickerHasRows ==
    /\ lastRisk'.n = lastRisk.n + 1
    /\ lastRisk'.region \in DOMAIN region_mapping
    /\ Falsy(lastRisk'.sector) \/ lastRisk'.sector \in DOMAIN region_mapping[lastRisk'.region]
    /\ ~Served(cache, cache_expiry, provider, now, "^GSPC").raised
    /\ \A ticker \in (IF Falsy(lastRisk'.sector) THEN TickersOfRegion(lastRisk'.region)
                      ELSE {region_mapping[lastRisk'.region][lastRisk'.sector][i] : i \in 1..5}) :
          \/ Served(cache, cache_expiry, provider, now, ticker).raised
          \/ Served(cache, cache_expiry, provider, now, ticker).data = EmptyFrame

\* C28: when analyze_risk_exposure is called for a supported region and
\* sector, the benchmark fetch succeeds and no resolved ticker yields a
\* non-empty series, it returns a report without error whose metrics map is
\* empty, whose average volatility, beta and var_95 are 0 and whose
\* risk_level is Low.
C28_NoSeriesGivesLowRisk ==
    [][NoTickerHasRows
        => /\ "error" \notin DOMAIN lastRisk'.value
           /\ DOMAIN lastRisk'.value.metrics = {}
           /\ lastRisk'.value.average_metrics =
                 [volatility |-> Num(0), beta |-> Num(0), var_95 |-> Num(0)]
           /\ lastRisk'.value.risk_level = "Low"]_vars

\* the benchmark was served from the cache of an earlier analysis while the
\* provider refused every ticker of the second one
C28_Witness ==
    /\ lastRisk.n = 2
    /\ lastRisk.region = "Asia"
    /\ lastRisk.sector = "Technology"
    /\ "error" \notin DOMAIN lastRisk.value
    /\ DOMAIN lastRisk.value.metrics = {}
    /\ lastRisk.value.risk_level = "Low"
    /\ lastRisk.fetches >= 5
    /\ CacheKey("^GSPC", "1mo", "1d") \in DOMAIN cache
    /\ CacheKey("TSM", "1mo", "1d") \notin DOMAIN cache

\* the result d of analyze_risk_exposure is a refusal of the region or of the
\* sector the risk_assessment branch asked for
NotSupported(q, d) ==
    /\ "error" \in DOMAIN d
    /\ \E region \in RegionEntities(q) \cup {"Asia"},
          sector \in SectorEntities(q) \cup {"Technology", None} :
          d.error \in {RegionNotSupported(region), SectorNotSupported(region, sector)}

\* C29: every region and sector the risk_assessment branch can pass to
\* analyze_risk_exposure, from an entity of its vocabularies or from a
\* default, is supported by the taxonomy: a risk_assessment query never ends
\* in a "not supported" error.
C29_RiskVocabularySupported ==
    RiskBranchReturned(lastQuery)
        => ~NotSupported(lastQuery, lastQuery.response.content.data)

(***************************************************************************)
(* process_query: the request without a query.                             *)
(***************************************************************************)
\* C30: a request whose query is missing or empty is answered with the 400
\* error "No query provided" and has no other effect: the classifier, the
\* router and the data provider are not called, no ingestion task is
\* scheduled, and cache, cache_expiry and last_data_ingestion are unchanged.
C30_NoQueryNoEffect ==
    [][(lastQuery'.n = lastQuery.n + 1 /\ QueryOf(lastQuery'.request) = << >>)
        => /\ lastQuery'.response =
                 [status_code |-> 400, content |-> [error |-> "No query provided"]]
           /\ ~lastQuery'.classified
           /\ lastQuery'.routed = "not called"
           /\ lastQuery'.calls = << >>
           /\ lastQuery'.fetches = 0
           /\ tasks' = tasks
           /\ cache' = cache
           /\ cache_expiry' = cache_expiry
           /\ last_data_ingestion' = last_data_ingestion]_vars

\* a request without a query field came after one that filled the cache and
\* scheduled a task: it was answered 400 and left both as they were
C30_Witness ==
    /\ lastQuery.n = 2
    /\ ~lastQuery.request.has_query
    /\ lastQuery.response.status_code = 400
    /\ lastQuery.cache_before # EmptyMap
    /\ cache = lastQuery.cache_before
    /\ tasks = 1
====
